---- MODULE Spec2Model ----
(***************************************************************************)
(* CounterGo: the root driver of the parallel alpha-beta search            *)
(* (Engine.Search, iterativeDeepening, searchRootParallel), the time       *)
(* control and the board primitives the search is written against.         *)
(***************************************************************************)
EXTENDS Integers, Sequences, FiniteSets, TLC

(***************************************************************************)
(* Bounds of the model.                                                    *)
(***************************************************************************)
\* the iterative-deepening ceiling and the search-stack height (scaled down)
maxHeight == 5
\* depth iterations followed in one search
MaxIterations == 3
\* largest value of the Threads option that is explored
MaxThreads == 2
\* number of Search calls made on one Engine
MaxSearches == 2
\* longest line a child search hands back to the root
MaxPv == 1
\* largest main time, largest increment and largest movesToGo, in the units
\* of the time control (milliseconds, moves)
MaxMain == 400
MaxInc == 100
MaxMovesToGo == 52

(***************************************************************************)
(* Score encoding (spec section 3).                                        *)
(***************************************************************************)
valueDraw == 0

valueWin == 30000

valueLoss == -valueWin

valueInfinity == 32000

PawnValue == 100

RookValue == 500

winIn(height) == valueWin - height

lossIn(height) == -valueWin + height

AbsDelta(x, y) == IF x > y THEN x - y ELSE y - x

Min(x, y) == IF x < y THEN x ELSE y

Max(x, y) == IF x > y THEN x ELSE y

(***************************************************************************)
(* Board primitives.  A position is a record; a move is one of a few       *)
(* move values whose effect on the position is fixed.                      *)
(*   "K"   a king step (quiet, reversible: a second step takes it back)    *)
(*   "x"   a capture of a rook or queen  "+"  a quiet check                *)
(*   "P7"  a pawn push to the 7th rank   "pin" a pseudo-legal move that    *)
(*   leaves the own king in check        "#"  a quiet mating move          *)
(*   "st"  a quiet move that stalemates the opponent                       *)
(***************************************************************************)
MoveEmpty == "-"

Moves == {"K", "x", "+", "P7", "pin", "#", "st"}

isCaptureOrPromotion(m) == m = "x"

GivesCheck(m) == m \in {"+", "#"}

Irreversible(m) == m \in {"x", "+", "P7", "#", "st"}

\* the position after move m; MakeMove reports whether m was legal
MakeMoveOk(p, m) == m # "pin"

MakeMove(p, m) ==
    [ white    |-> ~p.white,
      wK       |-> IF m = "K" /\ p.white THEN 1 - p.wK ELSE p.wK,
      bK       |-> IF m = "K" /\ ~p.white THEN 1 - p.bK ELSE p.bK,
      irr      |-> IF Irreversible(m) THEN p.irr + 1 ELSE p.irr,
      Rule50   |-> IF m \in {"x", "P7"} THEN 0 ELSE p.Rule50 + 1,
      LastMove |-> m,
      check    |-> GivesCheck(m),
      heavy    |-> IF m = "x" THEN p.heavy - 1 ELSE p.heavy,
      minors   |-> p.minors,
      bal      |-> IF m = "x"
                   THEN (IF p.white THEN p.bal + RookValue ELSE p.bal - RookValue)
                   ELSE p.bal,
      loose    |-> p.loose,
      moves    |-> IF m \in {"#", "st"} THEN <<"pin">> ELSE p.moves ]

MakeNullMove(p) ==
    [p EXCEPT !.white = ~p.white, !.Rule50 = p.Rule50 + 1,
              !.LastMove = MoveEmpty, !.check = FALSE]

\* the zobrist key: placement and side to move (which fix the moves there are
\* and whether the king is attacked), not the rule-50 counter or the last move
Key(p) == <<p.white, p.wK, p.bK, p.irr, p.heavy, p.minors, p.check, p.moves>>

IsCheck(p) == p.check

Available(p, m) == (m \in {"x", "P7"}) => p.heavy > 0

\* pseudo-legal moves, in generation order
GenerateMoves(p) == SelectSeq(p.moves, LAMBDA m : Available(p, m))

\* captures and promotions, and the quiet checks on request
GenerateCaptures(p, genChecks) ==
    SelectSeq(GenerateMoves(p),
              LAMBDA m : isCaptureOrPromotion(m) \/ (genChecks /\ GivesCheck(m)))

RECURSIVE IsLegalLine(_, _)
IsLegalLine(p, line) ==
    \/ line = <<>>
    \/ /\ \E i \in 1..Len(GenerateMoves(p)) : GenerateMoves(p)[i] = Head(line)
       /\ MakeMoveOk(p, Head(line))
       /\ IsLegalLine(MakeMove(p, Head(line)), Tail(line))

LegalLines(p) ==
    {l \in UNION {[1..n -> Moves] : n \in 0..MaxPv} : IsLegalLine(p, l)}

(***************************************************************************)
(* Move ordering.                                                          *)
(***************************************************************************)
sortTableKeyImportant == 2

\* SortTable.Note: the transposition move first, captures next, quiets last
Note(ml, trans) ==
    [i \in 1..Len(ml) |->
        [Move |-> ml[i],
         Key  |-> IF ml[i] = trans THEN 3
                  ELSE IF isCaptureOrPromotion(ml[i]) THEN sortTableKeyImportant
                  ELSE 0]]

RemoveAt(s, i) == SubSeq(s, 1, i - 1) \o SubSeq(s, i + 1, Len(s))

\* index of the first element with the largest key
BestIndex(ml) ==
    CHOOSE i \in 1..Len(ml) :
        /\ \A j \in 1..Len(ml) : ml[j].Key <= ml[i].Key
        /\ \A j \in 1..(i - 1) : ml[j].Key < ml[i].Key

\* stable sort by descending key
RECURSIVE sortMoves(_)
sortMoves(ml) ==
    IF Len(ml) <= 1 THEN ml
    ELSE <<ml[BestIndex(ml)]>> \o sortMoves(RemoveAt(ml, BestIndex(ml)))

moveToTop(ml) ==
    IF Len(ml) = 0 \/ BestIndex(ml) = 1 THEN ml
    ELSE [ml EXCEPT ![1] = ml[BestIndex(ml)], ![BestIndex(ml)] = ml[1]]

\* index is 0-based as in the source; sequences are 1-based
moveToBegin(ml, index) ==
    IF index = 0 THEN ml
    ELSE [i \in 1..Len(ml) |->
            IF i = 1 THEN ml[index + 1]
            ELSE IF i <= index + 1 THEN ml[i - 1]
            ELSE ml[i]]

genRootMoves(p, transMove) ==
    LET ml     == sortMoves(Note(GenerateMoves(p), transMove))
        legal  == SelectSeq(ml, LAMBDA om : MakeMoveOk(p, om.Move))
    IN  [i \in 1..Len(legal) |-> legal[i].Move]

(***************************************************************************)
(* Engine state.                                                           *)
(***************************************************************************)
VARIABLES
    mainLine,       \* Engine.mainLine: [moves, score, depth]
    done,           \* the cancellation channel of the running search is closed
    Threads,        \* Engine.Threads.Value of the running search
    progress,       \* the SearchInfo values handed to the progress callback
    pc,             \* position of the goroutine that called Search
    rootPos,        \* threads[i].stack[0].position
    ml,             \* iterativeDeepening: the root move list
    depth,          \* iterativeDeepening: the iteration depth
    prevScore,      \* iterativeDeepening: prevScore
    alpha,          \* searchRootParallel: alpha
    index,          \* searchRootParallel: index
    bestMoveIndex,  \* searchRootParallel: bestMoveIndex
    gate,           \* searchRootParallel: holder of the mutex, 0 when free
    wpc,            \* position of each worker goroutine
    local,          \* per worker: localAlpha, localIndex, score
    pv1,            \* per thread: stack[1].pv.moves() of the search awaiting its update
    panicking,      \* per goroutine: the panic value being unwound
    result,         \* what the last Search call returned
    escaped,        \* panic value that left the search
    retAlpha,       \* value returned by the last searchRootParallel call
    searches,       \* number of Search calls returned so far
    taken,          \* how often each root index was handed to a worker
    completed,      \* mainLine when the last iteration ran to its end
    cut,            \* searches cut short by cancellation in this iteration
    swallowed       \* panic values a recover swallowed, with the boundary

VARIABLES
    frames,         \* the calls of alphaBeta and quiescence in progress on one thread
    stack,          \* thread.stack: position and pv of every height
    ret,            \* the value the last finished call returned
    transTable,     \* Engine.transTable
    historyKeys,    \* Engine.historyKeys
    nodes,          \* thread.nodes
    abDone,         \* the cancellation channel seen by this thread is closed
    abPanic         \* the thread is unwinding with searchTimeout

VARIABLES
    tcArgs,         \* timeControlSmart: main, inc, moves
    tcRet           \* timeControlSmart: softLimit, hardLimit

VARIABLES
    file,           \* the training file at Tuner.FilePath
    Lambda,         \* Tuner.Lambda
    NumCPU,         \* runtime.NumCPU()
    samples,        \* Tuner.samples
    threads,        \* Tuner.threads: evaluator and sum of every worker
    weights,        \* the weight vector coordinateDescent works on
    steps,          \* coordinateDescent: steps
    bestE,          \* coordinateDescent: bestE
    weightIndex,    \* coordinateDescent: weightIndex (1-based)
    old,            \* coordinateDescent: oldStep, oldValue
    iteration,      \* coordinateDescent: iteration
    breakF,         \* the closure of shouldBreak: iteration, ema, prevErr
    tpc,            \* where Tuner.Run stands
    logged,         \* what Tuner.Logger printed
    printed,        \* what fmt.Printf printed
    runErr,         \* the error Run returned
    tunerIndex,     \* computeError: index
    cpc,            \* computeError: where every worker stands
    taking,         \* computeError: the i of every worker
    er,             \* what computeError returned last
    evaluated       \* per worker, the sample indices it evaluated, in order

tunerVars == <<file, Lambda, NumCPU, samples, threads, weights, steps, bestE,
               weightIndex, old, iteration, breakF, tpc, logged, printed,
               runErr, tunerIndex, cpc, taking, er, evaluated>>

abVars == <<frames, stack, ret, transTable, historyKeys, nodes, abDone, abPanic>>

tcVars == <<tcArgs, tcRet>>

rootVars == <<mainLine, done, Threads, progress, pc, rootPos, ml, depth,
              prevScore, alpha, index, bestMoveIndex, gate, wpc, local, pv1,
              panicking, result, escaped, retAlpha, searches, taken,
              completed, cut, swallowed>>

vars == <<rootVars, abVars, tcVars, tunerVars>>

ThreadIds == 1..MaxThreads

NoPanic == "none"

searchTimeout == "search timeout"

\* panic values a search can raise: the cancellation unwind and a runtime error
PanicValues == {searchTimeout, "runtime error"}

\* scores a root move search hands back
RootScores == {0, PawnValue}

StartPosition ==
    [white |-> TRUE, wK |-> 0, bK |-> 0, irr |-> 0, Rule50 |-> 0,
     LastMove |-> MoveEmpty, check |-> FALSE, heavy |-> 1, minors |-> 2,
     bal |-> 0, loose |-> TRUE, moves |-> <<"K", "x", "pin">>]

\* root positions handed to Search: three legal moves, one, none (mate)
RootPositions ==
    { [StartPosition EXCEPT !.moves = <<"pin", "K", "#", "st">>],
      [StartPosition EXCEPT !.moves = <<"pin", "K">>],
      [StartPosition EXCEPT !.moves = <<"pin">>, !.check = TRUE,
                            !.LastMove = "#", !.Rule50 = 1, !.irr = 1] }

NoResult == [Depth |-> -1, MainLine |-> <<>>, Score |-> 0]

\* mainLine.update
update(d, score, line) == [depth |-> d, score |-> score, moves |-> line]

currentSearchResult ==
    [Depth |-> mainLine.depth, MainLine |-> mainLine.moves, Score |-> mainLine.score]

\* a recover that raises every panic value again, the cancellation unwind too
recoverFromSearchTimeout_RaisesAll(r) == r # NoPanic

\* recoverFromSearchTimeout: TRUE when the panic value r is raised again
recoverFromSearchTimeout(r) == r # NoPanic /\ r # searchTimeout

NoLocal == [localAlpha |-> 0, localIndex |-> 0, score |-> 0]

NoRet == [val |-> 0, site |-> "none", fn |-> "none", height |-> 0,
          alpha |-> 0, beta |-> 0, depth |-> 0, line |-> <<>>]

NoLimits == [softLimit |-> 0, hardLimit |-> 0]

\* no call of alphaBeta is being followed
ThreadIdle ==
    /\ frames = <<>>
    /\ stack = [h \in 0..maxHeight |-> [position |-> StartPosition, pv |-> <<>>]]
    /\ ret = NoRet
    /\ transTable = <<>>
    /\ historyKeys = <<>>
    /\ nodes = 0
    /\ abDone = FALSE
    /\ abPanic = FALSE

\* no call of timeControlSmart is being followed
TimeControlIdle ==
    /\ tcArgs = [main |-> 0, inc |-> 0, moves |-> 0]
    /\ tcRet = NoLimits

\* an error value of the float64 kind: not a number, or num / den
NaN == [nan |-> TRUE, num |-> 0, den |-> 1]

NoBreakF == [iteration |-> -1, ema |-> NaN, prevErr |-> NaN]

\* no Tuner is running
TunerIdle ==
    /\ file = [exists |-> FALSE, lines |-> <<>>, ioError |-> FALSE]
    /\ Lambda = 0
    /\ NumCPU = 1
    /\ samples = <<>>
    /\ threads = <<>>
    /\ weights = <<>>
    /\ steps = <<>>
    /\ bestE = NaN
    /\ weightIndex = 0
    /\ old = [oldStep |-> 0, oldValue |-> 0]
    /\ iteration = 0
    /\ breakF = NoBreakF
    /\ tpc = "off"
    /\ logged = <<>>
    /\ printed = <<>>
    /\ runErr = "none"
    /\ tunerIndex = -1
    /\ cpc = <<>>
    /\ taking = <<>>
    /\ er = NaN
    /\ evaluated = <<>>

\* the Engine as NewEngine leaves it
EngineIdle ==
    /\ mainLine = [depth |-> 0, score |-> 0, moves |-> <<>>]
    /\ done = FALSE
    /\ Threads = 1
    /\ progress = <<>>
    /\ pc = "idle"
    /\ rootPos = StartPosition
    /\ ml = <<>>
    /\ depth = 0
    /\ prevScore = 0
    /\ alpha = 0
    /\ index = 0
    /\ bestMoveIndex = 0
    /\ gate = 0
    /\ wpc = [t \in ThreadIds |-> "none"]
    /\ local = [t \in ThreadIds |-> NoLocal]
    /\ pv1 = [t \in ThreadIds |-> <<>>]
    /\ panicking = [t \in 0..MaxThreads |-> NoPanic]
    /\ result = NoResult
    /\ escaped = NoPanic
    /\ retAlpha = 0
    /\ searches = 0
    /\ taken = <<>>
    /\ completed = [depth |-> 0, score |-> 0, moves |-> <<>>]
    /\ cut = {}
    /\ swallowed = {}

Init == EngineIdle /\ ThreadIdle /\ TimeControlIdle /\ TunerIdle

Running == escaped = NoPanic

\* what a completed alphaBeta call below a root move can hand back
Outcomes(child) == [score : RootScores, pv : LegalLines(child)]

WorkerIds == 1..Threads

(***************************************************************************)
(* Engine.Search up to the call of iterativeDeepening.  Prepare rebuilds   *)
(* the threads only when the Threads option changed; mainLine is kept.     *)
(***************************************************************************)
Search(p, n) ==
    /\ pc = "idle" /\ Running /\ searches < MaxSearches
    /\ rootPos' = p
    /\ Threads' = n
    /\ pv1' = IF n # Threads THEN [t \in ThreadIds |-> <<>>] ELSE pv1
    /\ done' = FALSE
    /\ progress' = <<>>
    /\ result' = NoResult
    /\ pc' = "iterativeDeepening"
    /\ completed' = mainLine
    /\ cut' = {}
    /\ swallowed' = {}
    /\ ml' = <<>> /\ depth' = 0 /\ prevScore' = 0
    /\ alpha' = 0 /\ index' = 0 /\ bestMoveIndex' = 0 /\ retAlpha' = 0
    /\ taken' = <<>>
    /\ UNCHANGED <<mainLine, gate, wpc, local, panicking, escaped, searches>>
    /\ UNCHANGED <<abVars, tcVars, tunerVars>>

\* the context of the running search is cancelled or its deadline passes
Cancel ==
    /\ pc \notin {"idle", "crashed"} /\ Running /\ ~done
    /\ done' = TRUE
    /\ UNCHANGED <<mainLine, Threads, progress, pc, rootPos, ml, depth,
                   prevScore, alpha, index, bestMoveIndex, gate, wpc, local,
                   pv1, panicking, result, escaped, retAlpha, searches, taken,
                   completed, cut, swallowed>>
    /\ UNCHANGED <<abVars, tcVars, tunerVars>>

\* iterativeDeepening that does not store the depth-0 line of lines 16-18
IterativeDeepeningBegin_NoFirstLine ==
    /\ pc = "iterativeDeepening" /\ Running
    /\ \E transMove \in Moves \cup {MoveEmpty} :
          ml' = genRootMoves(rootPos, transMove)
    /\ mainLine' = mainLine
    /\ completed' = mainLine'
    /\ cut' = {}
    /\ IF Len(ml') <= 1
       THEN pc' = "return" /\ UNCHANGED <<depth, prevScore>>
       ELSE pc' = "searchRoot" /\ depth' = 1 /\ prevScore' = 0
    /\ UNCHANGED <<done, Threads, progress, rootPos, alpha, index,
                   bestMoveIndex, gate, wpc, local, pv1, panicking, result,
                   escaped, retAlpha, searches, taken, swallowed>>
    /\ UNCHANGED <<abVars, tcVars, tunerVars>>

\* iterativeDeepening, lines 15-21
IterativeDeepeningBegin ==
    /\ pc = "iterativeDeepening" /\ Running
    /\ \E transMove \in Moves \cup {MoveEmpty} :
          ml' = genRootMoves(rootPos, transMove)
    /\ mainLine' = IF Len(ml') # 0 THEN update(0, 0, <<ml'[1]>>) ELSE mainLine
    /\ completed' = mainLine'
    /\ cut' = {}
    /\ IF Len(ml') <= 1
       THEN pc' = "return" /\ UNCHANGED <<depth, prevScore>>
       ELSE pc' = "searchRoot" /\ depth' = 1 /\ prevScore' = 0
    /\ UNCHANGED <<done, Threads, progress, rootPos, alpha, index,
                   bestMoveIndex, gate, wpc, local, pv1, panicking, result,
                   escaped, retAlpha, searches, taken, swallowed>>
    /\ UNCHANGED <<abVars, tcVars, tunerVars>>

\* searchRootParallel, lines 43-61: thread 0 searches ml[0], then the workers start
RootFirstMove ==
    /\ pc = "searchRoot" /\ Running
    /\ \E o \in Outcomes(MakeMove(rootPos, ml[1])) :
          /\ alpha' = o.score
          /\ mainLine' = update(depth, o.score, <<ml[1]>> \o o.pv)
    /\ bestMoveIndex' = 0
    /\ gate' = 0
    /\ index' = 1
    /\ wpc' = [t \in ThreadIds |-> IF t \in WorkerIds THEN "lock" ELSE "none"]
    /\ local' = [t \in ThreadIds |-> NoLocal]
    /\ taken' = [i \in 0..(Len(ml) - 1) |-> 0]
    /\ pc' = "wait"
    /\ UNCHANGED <<done, Threads, progress, rootPos, ml, depth, prevScore,
                   pv1, panicking, result, escaped, retAlpha, searches, completed,
                   cut, swallowed>>
    /\ UNCHANGED <<abVars, tcVars, tunerVars>>

\* a first-move search that publishes its line before it has finished
RootFirstMovePanic_Publishing ==
    /\ pc = "searchRoot" /\ Running
    /\ \E v \in PanicValues :
          /\ v = searchTimeout => done
          /\ panicking' = [panicking EXCEPT ![0] = v]
    /\ mainLine' = [depth |-> depth, score |-> 0, moves |-> <<ml[1]>>]
    /\ cut' = cut \cup {0}
    /\ pc' = "unwind"
    /\ UNCHANGED <<done, Threads, progress, rootPos, ml, depth,
                   prevScore, alpha, index, bestMoveIndex, gate, wpc, local,
                   pv1, result, escaped, retAlpha, searches, taken, completed,
                   swallowed>>
    /\ UNCHANGED <<abVars, tcVars, tunerVars>>

\* the first-move search panics: incNodes on cancellation, or a runtime error
RootFirstMovePanic ==
    /\ pc = "searchRoot" /\ Running
    /\ \E v \in PanicValues :
          /\ v = searchTimeout => done
          /\ panicking' = [panicking EXCEPT ![0] = v]
    /\ cut' = cut \cup {0}
    /\ pc' = "unwind"
    /\ UNCHANGED <<mainLine, done, Threads, progress, rootPos, ml, depth,
                   prevScore, alpha, index, bestMoveIndex, gate, wpc, local,
                   pv1, result, escaped, retAlpha, searches, taken, completed,
                   swallowed>>
    /\ UNCHANGED <<abVars, tcVars, tunerVars>>

\* the deferred recoverFromSearchTimeout of iterativeDeepening, line 13
IterativeDeepeningRecover ==
    /\ pc = "unwind" /\ Running
    /\ IF recoverFromSearchTimeout(panicking[0])
       THEN /\ escaped' = panicking[0]
            /\ pc' = "crashed"
            /\ UNCHANGED swallowed
       ELSE /\ swallowed' = swallowed \cup {<<"iterativeDeepening", panicking[0]>>}
            /\ pc' = "return"
            /\ UNCHANGED escaped
    /\ panicking' = [panicking EXCEPT ![0] = NoPanic]
    /\ UNCHANGED <<mainLine, done, Threads, progress, rootPos, ml, depth,
                   prevScore, alpha, index, bestMoveIndex, gate, wpc, local,
                   pv1, result, retAlpha, searches, taken, completed, cut>>
    /\ UNCHANGED <<abVars, tcVars, tunerVars>>

(***************************************************************************)
(* The body handed to parallelDo, lines 61-90, one goroutine per thread.   *)
(***************************************************************************)
WorkerLock(t) ==
    /\ pc = "wait" /\ Running /\ wpc[t] = "lock"
    /\ gate = 0
    /\ gate' = t
    /\ wpc' = [wpc EXCEPT ![t] = "take"]
    /\ UNCHANGED <<mainLine, done, Threads, progress, pc, rootPos, ml, depth,
                   prevScore, alpha, index, bestMoveIndex, local, pv1,
                   panicking, result, escaped, retAlpha, searches, taken,
                   completed, cut, swallowed>>
    /\ UNCHANGED <<abVars, tcVars, tunerVars>>

\* a worker that reads the shared index without advancing it
WorkerTake_NoIncrement(t) ==
    /\ pc = "wait" /\ Running /\ wpc[t] = "take"
    /\ local' = [local EXCEPT ![t].localAlpha = alpha, ![t].localIndex = index]
    /\ taken' = IF index \in DOMAIN taken
                THEN [taken EXCEPT ![index] = @ + 1] ELSE taken
    /\ wpc' = [wpc EXCEPT ![t] = "unlock"]
    /\ UNCHANGED <<mainLine, done, Threads, progress, pc, rootPos, ml, depth,
                   prevScore, alpha, index, bestMoveIndex, gate, pv1,
                   panicking, result, escaped, retAlpha, searches, completed,
                   cut, swallowed>>
    /\ UNCHANGED <<abVars, tcVars, tunerVars>>

\* lines 67-69, under the mutex
WorkerTake(t) ==
    /\ pc = "wait" /\ Running /\ wpc[t] = "take"
    /\ local' = [local EXCEPT ![t].localAlpha = alpha, ![t].localIndex = index]
    /\ index' = index + 1
    /\ taken' = IF index \in DOMAIN taken
                THEN [taken EXCEPT ![index] = @ + 1] ELSE taken
    /\ wpc' = [wpc EXCEPT ![t] = "unlock"]
    /\ UNCHANGED <<mainLine, done, Threads, progress, pc, rootPos, ml, depth,
                   prevScore, alpha, bestMoveIndex, gate, pv1, panicking,
                   result, escaped, retAlpha, searches, completed, cut,
                   swallowed>>
    /\ UNCHANGED <<abVars, tcVars, tunerVars>>

\* lines 70-73
WorkerUnlock(t) ==
    /\ pc = "wait" /\ Running /\ wpc[t] = "unlock"
    /\ gate' = 0
    /\ wpc' = [wpc EXCEPT ![t] =
                 IF local[t].localIndex >= Len(ml) THEN "exit" ELSE "scout"]
    /\ local' = IF local[t].localIndex >= Len(ml)
                THEN [local EXCEPT ![t] = NoLocal] ELSE local
    /\ UNCHANGED <<mainLine, done, Threads, progress, pc, rootPos, ml, depth,
                   prevScore, alpha, index, bestMoveIndex, pv1,
                   panicking, result, escaped, retAlpha, searches, taken,
                   completed, cut, swallowed>>
    /\ UNCHANGED <<abVars, tcVars, tunerVars>>

WorkerChild(t) == MakeMove(rootPos, ml[local[t].localIndex + 1])

\* lines 74-79: the null-window search
WorkerScout(t) ==
    /\ pc = "wait" /\ Running /\ wpc[t] = "scout"
    /\ \E o \in Outcomes(WorkerChild(t)) :
          IF o.score <= local[t].localAlpha
          THEN /\ wpc' = [wpc EXCEPT ![t] = "lock"]
               /\ local' = [local EXCEPT ![t] = NoLocal]
          ELSE /\ wpc' = [wpc EXCEPT ![t] = "research"]
               /\ UNCHANGED local
    /\ UNCHANGED <<mainLine, done, Threads, progress, pc, rootPos, ml, depth,
                   prevScore, alpha, index, bestMoveIndex, gate, pv1,
                   panicking, result, escaped, retAlpha, searches, taken,
                   completed, cut, swallowed>>
    /\ UNCHANGED <<abVars, tcVars, tunerVars>>

\* line 80: the full-window search
WorkerResearch(t) ==
    /\ pc = "wait" /\ Running /\ wpc[t] = "research"
    /\ \E o \in Outcomes(WorkerChild(t)) :
          /\ pv1' = [pv1 EXCEPT ![t] = o.pv]
          /\ local' = [local EXCEPT ![t].score = o.score]
    /\ wpc' = [wpc EXCEPT ![t] = "lock2"]
    /\ UNCHANGED <<mainLine, done, Threads, progress, pc, rootPos, ml, depth,
                   prevScore, alpha, index, bestMoveIndex, gate, panicking,
                   result, escaped, retAlpha, searches, taken, completed, cut,
                   swallowed>>
    /\ UNCHANGED <<abVars, tcVars, tunerVars>>

\* a worker that panics between Lock and Unlock
WorkerPanic_HoldingGate(t) ==
    /\ pc = "wait" /\ Running /\ wpc[t] = "take"
    /\ \E v \in PanicValues :
          /\ v = searchTimeout => done
          /\ panicking' = [panicking EXCEPT ![t] = v]
    /\ cut' = cut \cup {t}
    /\ wpc' = [wpc EXCEPT ![t] = "unwind"]
    /\ UNCHANGED <<mainLine, done, Threads, progress, pc, rootPos, ml, depth,
                   prevScore, alpha, index, bestMoveIndex, gate, local, pv1,
                   result,
                   escaped, retAlpha, searches, taken, completed, swallowed>>
    /\ UNCHANGED <<abVars, tcVars, tunerVars>>

\* either search of the worker panics
WorkerPanic(t) ==
    /\ pc = "wait" /\ Running /\ wpc[t] \in {"scout", "research"}
    /\ \E v \in PanicValues :
          /\ v = searchTimeout => done
          /\ panicking' = [panicking EXCEPT ![t] = v]
    /\ cut' = cut \cup {t}
    /\ wpc' = [wpc EXCEPT ![t] = "unwind"]
    /\ UNCHANGED <<mainLine, done, Threads, progress, pc, rootPos, ml, depth,
                   prevScore, alpha, index, bestMoveIndex, gate, local, pv1,
                   result,
                   escaped, retAlpha, searches, taken, completed, swallowed>>
    /\ UNCHANGED <<abVars, tcVars, tunerVars>>

\* the deferred recoverFromSearchTimeout of the worker, line 62
WorkerRecover(t) ==
    /\ pc = "wait" /\ Running /\ wpc[t] = "unwind"
    /\ IF recoverFromSearchTimeout(panicking[t])
       THEN /\ escaped' = panicking[t]
            /\ pc' = "crashed"
            /\ UNCHANGED <<swallowed, wpc>>
       ELSE /\ swallowed' = swallowed \cup {<<"worker", panicking[t]>>}
            /\ wpc' = [wpc EXCEPT ![t] = "exit"]
            /\ UNCHANGED <<escaped, pc>>
    /\ panicking' = [panicking EXCEPT ![t] = NoPanic]
    /\ local' = [local EXCEPT ![t] = NoLocal]
    /\ UNCHANGED <<mainLine, done, Threads, progress, rootPos, ml, depth,
                   prevScore, alpha, index, bestMoveIndex, gate, pv1,
                   result, retAlpha, searches, taken, completed, cut>>
    /\ UNCHANGED <<abVars, tcVars, tunerVars>>

WorkerLock2(t) ==
    /\ pc = "wait" /\ Running /\ wpc[t] = "lock2"
    /\ gate = 0
    /\ gate' = t
    /\ wpc' = [wpc EXCEPT ![t] = "update"]
    /\ UNCHANGED <<mainLine, done, Threads, progress, pc, rootPos, ml, depth,
                   prevScore, alpha, index, bestMoveIndex, local, pv1,
                   panicking, result, escaped, retAlpha, searches, taken,
                   completed, cut, swallowed>>
    /\ UNCHANGED <<abVars, tcVars, tunerVars>>

\* a worker that stores its result without comparing it with the shared alpha
WorkerUpdate_Unconditional(t) ==
    /\ pc = "wait" /\ Running /\ wpc[t] = "update"
    /\ alpha' = local[t].score
    /\ mainLine' = [depth |-> depth, score |-> local[t].score,
                    moves |-> <<ml[local[t].localIndex + 1]>> \o pv1[t]]
    /\ bestMoveIndex' = local[t].localIndex
    /\ wpc' = [wpc EXCEPT ![t] = "unlock2"]
    /\ UNCHANGED <<done, Threads, progress, pc, rootPos, ml, depth, prevScore,
                   index, gate, local, pv1, panicking, result, escaped,
                   retAlpha, searches, taken, completed, cut, swallowed>>
    /\ UNCHANGED <<abVars, tcVars, tunerVars>>

\* lines 82-87, under the mutex
WorkerUpdate(t) ==
    /\ pc = "wait" /\ Running /\ wpc[t] = "update"
    /\ IF local[t].score > alpha
       THEN /\ alpha' = local[t].score
            /\ mainLine' = update(depth, local[t].score,
                                  <<ml[local[t].localIndex + 1]>> \o pv1[t])
            /\ bestMoveIndex' = local[t].localIndex
       ELSE UNCHANGED <<alpha, mainLine, bestMoveIndex>>
    /\ wpc' = [wpc EXCEPT ![t] = "unlock2"]
    /\ UNCHANGED <<done, Threads, progress, pc, rootPos, ml, depth, prevScore,
                   index, gate, local, pv1, panicking, result, escaped,
                   retAlpha, searches, taken, completed, cut, swallowed>>
    /\ UNCHANGED <<abVars, tcVars, tunerVars>>

WorkerUnlock2(t) ==
    /\ pc = "wait" /\ Running /\ wpc[t] = "unlock2"
    /\ gate' = 0
    /\ wpc' = [wpc EXCEPT ![t] = "lock"]
    /\ local' = [local EXCEPT ![t] = NoLocal]
    /\ pv1' = [pv1 EXCEPT ![t] = <<>>]
    /\ UNCHANGED <<mainLine, done, Threads, progress, pc, rootPos, ml, depth,
                   prevScore, alpha, index, bestMoveIndex,
                   panicking, result, escaped, retAlpha, searches, taken,
                   completed, cut, swallowed>>
    /\ UNCHANGED <<abVars, tcVars, tunerVars>>

\* parallelDo returns once every worker has left; lines 91-92
RootJoin ==
    /\ pc = "wait" /\ Running
    /\ \A t \in WorkerIds : wpc[t] = "exit"
    /\ ml' = moveToBegin(ml, bestMoveIndex)
    /\ retAlpha' = alpha
    /\ wpc' = [t \in ThreadIds |-> "none"]
    /\ pc' = "iterated"
    /\ UNCHANGED <<mainLine, done, Threads, progress, rootPos, depth,
                   prevScore, alpha, index, bestMoveIndex, gate, local, pv1,
                   panicking, result, escaped, searches, taken, completed, cut,
                   swallowed>>
    /\ UNCHANGED <<abVars, tcVars, tunerVars>>

\* iterativeDeepening with sendProgress moved in front of the tests of lines 26-36
IterationEnd_ProgressFirst ==
    /\ pc = "iterated" /\ Running
    /\ \E IsSoftTimeout \in BOOLEAN :
          IF \/ done
             \/ mainLine.score >= winIn(depth - 3)
             \/ mainLine.score <= lossIn(depth - 3)
             \/ (AbsDelta(prevScore, mainLine.score) <= PawnValue \div 2
                    /\ IsSoftTimeout)
          THEN /\ pc' = "return"
               /\ progress' = Append(progress, currentSearchResult.Depth)
               /\ UNCHANGED <<prevScore, depth, completed, cut,
                              alpha, index, bestMoveIndex, retAlpha, taken>>
          ELSE /\ depth < MaxIterations
               /\ prevScore' = mainLine.score
               /\ progress' = Append(progress, currentSearchResult.Depth)
               /\ completed' = mainLine
               /\ cut' = {}
               /\ depth' = depth + 1
               /\ pc' = IF depth + 1 <= maxHeight THEN "searchRoot" ELSE "return"
               /\ alpha' = 0 /\ index' = 0 /\ bestMoveIndex' = 0
               /\ retAlpha' = 0 /\ taken' = <<>>
    /\ UNCHANGED <<mainLine, done, Threads, rootPos, ml, gate, wpc, local,
                   pv1, panicking, result, escaped, searches, swallowed>>
    /\ UNCHANGED <<abVars, tcVars, tunerVars>>

\* iterativeDeepening, lines 26-39 and the loop condition of line 24
IterationEnd ==
    /\ pc = "iterated" /\ Running
    /\ \E IsSoftTimeout \in BOOLEAN :
          IF \/ done
             \/ mainLine.score >= winIn(depth - 3)
             \/ mainLine.score <= lossIn(depth - 3)
             \/ (AbsDelta(prevScore, mainLine.score) <= PawnValue \div 2
                    /\ IsSoftTimeout)
          THEN /\ pc' = "return"
               /\ UNCHANGED <<prevScore, progress, depth, completed, cut,
                              alpha, index, bestMoveIndex, retAlpha, taken>>
          ELSE /\ depth < MaxIterations
               /\ prevScore' = mainLine.score
               /\ progress' = Append(progress, currentSearchResult.Depth)
               /\ completed' = mainLine
               /\ cut' = {}
               /\ depth' = depth + 1
               /\ pc' = IF depth + 1 <= maxHeight THEN "searchRoot" ELSE "return"
               /\ alpha' = 0 /\ index' = 0 /\ bestMoveIndex' = 0
               /\ retAlpha' = 0 /\ taken' = <<>>
    /\ UNCHANGED <<mainLine, done, Threads, rootPos, ml, gate, wpc, local,
                   pv1, panicking, result, escaped, searches, swallowed>>
    /\ UNCHANGED <<abVars, tcVars, tunerVars>>

\* Engine.Search, line 132
SearchReturn ==
    /\ pc = "return" /\ Running
    /\ result' = currentSearchResult
    /\ searches' = searches + 1
    /\ pc' = "idle"
    /\ UNCHANGED <<mainLine, done, Threads, progress, rootPos, ml, depth,
                   prevScore, alpha, index,
                   bestMoveIndex, gate, wpc, local, pv1, panicking, escaped,
                   retAlpha, taken, completed, cut, swallowed>>
    /\ UNCHANGED <<abVars, tcVars, tunerVars>>

Next ==
    \/ \E p \in RootPositions, n \in ThreadIds : Search(p, n)
    \/ Cancel
    \/ IterativeDeepeningBegin
    \/ RootFirstMove
    \/ RootFirstMovePanic
    \/ IterativeDeepeningRecover
    \/ \E t \in ThreadIds : WorkerLock(t)
    \/ \E t \in ThreadIds : WorkerTake(t)
    \/ \E t \in ThreadIds : WorkerUnlock(t)
    \/ \E t \in ThreadIds : WorkerScout(t)
    \/ \E t \in ThreadIds : WorkerResearch(t)
    \/ \E t \in ThreadIds : WorkerPanic(t)
    \/ \E t \in ThreadIds : WorkerRecover(t)
    \/ \E t \in ThreadIds : WorkerLock2(t)
    \/ \E t \in ThreadIds : WorkerUpdate(t)
    \/ \E t \in ThreadIds : WorkerUnlock2(t)
    \/ RootJoin
    \/ IterationEnd
    \/ SearchReturn

Spec == Init /\ [][Next]_vars

(***************************************************************************)
(* Properties of the root driver.                                          *)
(***************************************************************************)
Returned == pc = "idle" /\ searches > 0

\* a search below the root was cut short by the cancellation unwind
CancelledMidIteration == Returned /\ cut # {}

SearchInfoOf(line) ==
    [Depth |-> line.depth, MainLine |-> line.moves, Score |-> line.score]

C2_ReturnedPvLegal ==
    Returned => IsLegalLine(rootPos, result.MainLine)

\* C3 as stated: a root position without a legal move yields an empty PV,
\* whatever was searched before on the same Engine.
C3_NoMoveNoPv ==
    (Returned /\ Len(genRootMoves(rootPos, MoveEmpty)) = 0)
        => result.MainLine = <<>>

\* the position has a move that GenerateMoves yields and MakeMove accepts
HasLegalMove(p) ==
    \E i \in 1..Len(GenerateMoves(p)) : MakeMoveOk(p, GenerateMoves(p)[i])

\* C21: when the root position has a legal move, the PV that Search returns
\* is not empty and starts with a legal move of the root of that search,
\* whenever the cancellation came and whatever earlier searches left behind.
C21_FirstMoveLegalAtRoot ==
    (Returned /\ HasLegalMove(rootPos)) =>
        /\ result.MainLine # <<>>
        /\ IsLegalLine(rootPos, <<Head(result.MainLine)>>)

\* the second search on the Engine, cancelled while thread 0 searched the
\* first move of depth 1: the depth-0 line of this search is returned
C21_Witness ==
    /\ Returned /\ searches = 2 /\ done
    /\ depth = 1 /\ 0 \in cut
    /\ HasLegalMove(rootPos)
    /\ result.Depth = 0
    /\ result.MainLine = <<ml[1]>>

Searching(t) == wpc[t] \in {"scout", "research", "lock2", "update", "unlock2"}

\* C4: no root index is handed out twice, index 0 is never handed to a worker
\* and is searched by thread 0 while no worker runs, and when no search was
\* cut short every index 1..len(ml)-1 has been handed out exactly once.
C4_RootMovesSplit ==
    /\ pc = "searchRoot" => \A t \in ThreadIds : wpc[t] = "none"
    /\ pc \in {"wait", "iterated"} =>
          /\ taken[0] = 0
          /\ \A i \in DOMAIN taken : taken[i] <= 1
          /\ \A t \in ThreadIds : Searching(t) =>
                /\ local[t].localIndex \in 1..(Len(ml) - 1)
                /\ taken[local[t].localIndex] = 1
                /\ \A u \in ThreadIds \ {t} :
                      Searching(u) => local[u].localIndex # local[t].localIndex
    /\ (pc = "iterated" /\ cut = {}) =>
          \A i \in 1..(Len(ml) - 1) : taken[i] = 1

C4_Witness ==
    /\ pc = "iterated" /\ cut = {} /\ Threads = 2 /\ Len(ml) = 3
    /\ taken[1] = 1 /\ taken[2] = 1

\* C5: inside one iteration the shared alpha never decreases, the main line
\* always starts with the move at bestMoveIndex, and when searchRootParallel
\* has returned mainLine.score is the returned alpha, mainLine.depth the
\* iteration depth and the first main-line move is ml[0].
C5_RootUpdatesConsistent ==
    /\ [][(pc = "wait" /\ pc' = "wait") => alpha' >= alpha]_vars
    /\ [](pc = "wait" =>
            /\ mainLine.score = alpha
            /\ mainLine.depth = depth
            /\ Head(mainLine.moves) = ml[bestMoveIndex + 1])
    /\ [](pc = "iterated" =>
            /\ mainLine.score = retAlpha
            /\ mainLine.depth = depth
            /\ Head(mainLine.moves) = ml[1])

C5_Witness ==
    /\ pc = "iterated" /\ cut # {} /\ bestMoveIndex > 0
    /\ retAlpha = PawnValue

\* C6: the cancellation unwind never leaves the search, it is swallowed at the
\* iterativeDeepening and worker boundaries only, and any other panic value
\* that reaches a boundary leaves it unchanged.
C6_OnlyCancellationSwallowed ==
    /\ [](escaped # searchTimeout)
    /\ [](\A e \in swallowed :
            e[1] \in {"iterativeDeepening", "worker"} /\ e[2] = searchTimeout)
    /\ [][\A g \in 0..MaxThreads :
            (panicking[g] # NoPanic /\ panicking'[g] = NoPanic) =>
                IF panicking[g] = searchTimeout
                THEN escaped' = NoPanic /\ pc' # "crashed"
                ELSE escaped' = panicking[g] /\ pc' = "crashed"]_vars

C6_Witness ==
    /\ Returned
    /\ swallowed = {<<"worker", searchTimeout>>}

(***************************************************************************)
(* Time control.                                                           *)
(***************************************************************************)
MovesToGo == 50

LastMoveReserve == 300

\* a time control that forgets to clamp the hard limit
timeControlSmart_HardUnclamped(main, inc, movesArg) ==
    LET moves     == IF movesArg = 0 \/ movesArg > MovesToGo THEN MovesToGo ELSE movesArg
        maxLimit  == IF moves > 1
                     THEN Min(main - LastMoveReserve, main \div 2 + inc)
                     ELSE main - LastMoveReserve
        softLimit == (MovesToGo * main) \div (moves * (2 * MovesToGo - moves)) + inc
    IN  [softLimit |-> Max(1, Min(maxLimit, softLimit)),
         hardLimit |-> softLimit * 4]

\* timeControlSmart; float64(main)/safeMoves with safeMoves = moves*(2-moves/50)
\* is the quotient 50*main / (moves*(100-moves)), truncated by int() (float
\* rounding can move softLimit by one before the clamps, never past them)
timeControlSmart(main, inc, movesArg) ==
    LET moves     == IF movesArg = 0 \/ movesArg > MovesToGo THEN MovesToGo ELSE movesArg
        maxLimit  == IF moves > 1
                     THEN Min(main - LastMoveReserve, main \div 2 + inc)
                     ELSE main - LastMoveReserve
        softLimit == (MovesToGo * main) \div (moves * (2 * MovesToGo - moves)) + inc
        hardLimit == softLimit * 4
    IN  [softLimit |-> Max(1, Min(maxLimit, softLimit)),
         hardLimit |-> Max(1, Min(maxLimit, hardLimit))]

InitTimeControl ==
    /\ EngineIdle /\ ThreadIdle /\ TunerIdle
    /\ tcArgs \in [main : 1..MaxMain, inc : {0, 1, MaxInc}, moves : 0..MaxMovesToGo]
    /\ tcRet = NoLimits

TimeControlSmart ==
    /\ tcRet = NoLimits
    /\ tcRet' = timeControlSmart(tcArgs.main, tcArgs.inc, tcArgs.moves)
    /\ UNCHANGED <<tcArgs, rootVars, abVars, tunerVars>>

NextTimeControl == TimeControlSmart

SpecTimeControl == InitTimeControl /\ [][NextTimeControl]_vars

\* the maxLimit of the claim
C10_MaxLimit ==
    LET effective == IF tcArgs.moves = 0 \/ tcArgs.moves > 50 THEN 50 ELSE tcArgs.moves
    IN  IF effective > 1
        THEN Min(tcArgs.main - 300, tcArgs.main \div 2 + tcArgs.inc)
        ELSE tcArgs.main - 300

\* C10 as stated: for main > 0, inc >= 0 and movesToGo >= 0 both limits lie
\* in [1, maxLimit].
C10_LimitsWithinMaxLimit ==
    tcRet # NoLimits =>
        /\ tcRet.softLimit \in 1..C10_MaxLimit
        /\ tcRet.hardLimit \in 1..C10_MaxLimit

\* C10 amended: both limits lie in [1, max(1, maxLimit)]: in [1, maxLimit]
\* when maxLimit >= 1, and both are 1 when maxLimit < 1 (main <= 300).
C10_LimitsClamped ==
    tcRet # NoLimits =>
        /\ tcRet.softLimit \in 1..Max(1, C10_MaxLimit)
        /\ tcRet.hardLimit \in 1..Max(1, C10_MaxLimit)

C10_Witness ==
    /\ tcRet # NoLimits
    /\ tcArgs.moves = 0 /\ tcArgs.main > LastMoveReserve
    /\ tcRet.hardLimit = C10_MaxLimit
    /\ tcRet.softLimit < tcRet.hardLimit

(***************************************************************************)
(* One search thread: alphaBeta and quiescence, followed call by call.     *)
(* frames is the chain of calls in progress; every action runs the top     *)
(* call from where it stands up to its next call or to its return.         *)
(***************************************************************************)
boundLower == 1

boundUpper == 2

HasBound(ttType, b) == (ttType \div b) % 2 = 1

\* the mate band of the score range
valueToTT(v, height) ==
    IF v >= winIn(maxHeight) THEN v + height
    ELSE IF v <= lossIn(maxHeight) THEN v - height
    ELSE v

valueFromTT(v, height) ==
    IF v >= winIn(maxHeight) THEN v - height
    ELSE IF v <= lossIn(maxHeight) THEN v + height
    ELSE v

\* TransTable.Read and TransTable.Update: one entry per key
Read(tt, p) ==
    IF Key(p) \in DOMAIN tt
    THEN [ok |-> TRUE, depth |-> tt[Key(p)].depth, score |-> tt[Key(p)].score,
          bound |-> tt[Key(p)].bound, move |-> tt[Key(p)].move]
    ELSE [ok |-> FALSE, depth |-> 0, score |-> 0, bound |-> 0, move |-> MoveEmpty]

Update(tt, p, d, score, bound, move) ==
    [k \in DOMAIN tt \cup {Key(p)} |->
        IF k = Key(p)
        THEN [depth |-> d, score |-> score, bound |-> bound, move |-> move]
        ELSE tt[k]]

\* Evaluator.Evaluate: the material balance seen by the side to move
Evaluate(p) == IF p.white THEN p.bal ELSE -p.bal

seeGEZero(p, m) == m = "x" => p.loose

isDangerCapture(p, m) == m = "x" /\ p.heavy = 1

moveValue(m) == IF m = "x" THEN RookValue ELSE 0

isPawnAdvance(m) == m = "P7"

isPawnPush7th(m) == m = "P7"

isLateEndgame(p) == p.heavy + p.minors <= 1

lateMoveReduction(d, m) == IF m >= 2 THEN 1 ELSE 0

\* Go map lookup: 0 for a missing key
Lookup(hk, k) == IF k \in DOMAIN hk THEN hk[k] ELSE 0

\* getHistoryKeys: positions[1..i], walked from the last one backward
RECURSIVE HistoryWalk(_, _, _)
HistoryWalk(positions, i, res) ==
    IF i < 1 THEN res
    ELSE LET k    == Key(positions[i])
             next == [x \in DOMAIN res \cup {k} |->
                        IF x = k THEN Lookup(res, k) + 1 ELSE res[x]]
         IN  IF positions[i].Rule50 = 0 THEN next
             ELSE HistoryWalk(positions, i - 1, next)

getHistoryKeys(positions) == HistoryWalk(positions, Len(positions), <<>>)

\* the loop of isDraw from index i downward
RECURSIVE RepetitionWalk(_, _, _)
RepetitionWalk(st, p, i) ==
    IF i < 0 THEN "end"
    ELSE IF Key(st[i].position) = Key(p) THEN "draw"
    ELSE IF st[i].position.Rule50 = 0 \/ st[i].position.LastMove = MoveEmpty
         THEN "stop"
    ELSE RepetitionWalk(st, p, i - 1)

\* isDraw without its lines 345-347: the history keys are never looked at
isDraw_NoHistory(st, hk, height) ==
    LET p == st[height].position
    IN  \/ (p.heavy = 0 /\ ~(p.minors > 1))
        \/ p.Rule50 > 100
        \/ RepetitionWalk(st, p, height - 1) = "draw"

isDraw(st, hk, height) ==
    LET p == st[height].position
    IN  \/ (p.heavy = 0 /\ ~(p.minors > 1))
        \/ p.Rule50 > 100
        \/ RepetitionWalk(st, p, height - 1) = "draw"
        \/ (RepetitionWalk(st, p, height - 1) = "end" /\ Lookup(hk, Key(p)) >= 2)

\* thread.newDepth for the move that led from p to child
newDepth(d, p, child) ==
    LET prevMove == p.LastMove
        move     == child.LastMove
    IN  IF prevMove # MoveEmpty /\ prevMove = "x" /\ move = "x" /\ seeGEZero(p, move)
        THEN d
        ELSE IF IsCheck(child) /\ (d <= 1 \/ seeGEZero(p, move)) THEN d
        ELSE IF isPawnPush7th(move) /\ seeGEZero(p, move) THEN d
        ELSE d - 1

NewFrame(fn, a, b, d, height) ==
    [fn |-> fn, alpha |-> a, alpha0 |-> a, beta |-> b, depth |-> d,
     height |-> height, pc |-> "entry", isCheck |-> FALSE,
     hashMove |-> MoveEmpty, ml |-> <<>>, i |-> 0, moveCount |-> 0,
     quietsSearched |-> <<>>, staticEval |-> valueInfinity,
     bestMove |-> MoveEmpty, move |-> MoveEmpty, newDepth |-> 0, eval |-> 0]

\* the thread state as one record, so that a step is a function on it
Cur ==
    [frames |-> frames, stack |-> stack, ret |-> ret, transTable |-> transTable,
     nodes |-> nodes, panic |-> abPanic]

Apply(n) ==
    /\ frames' = n.frames
    /\ stack' = n.stack
    /\ ret' = n.ret
    /\ transTable' = n.transTable
    /\ nodes' = n.nodes
    /\ abPanic' = n.panic
    /\ UNCHANGED <<historyKeys, abDone, rootVars, tcVars, tunerVars>>

Top == frames[Len(frames)]

SetTop(s, f) == [s EXCEPT !.frames[Len(s.frames)] = f]

\* the top call f calls callee
Call(s, f, callee) ==
    [s EXCEPT !.frames = Append([s.frames EXCEPT ![Len(s.frames)] = f], callee)]

\* the top call returns val from the return statement named site; line keeps
\* the positions of the stack up to the height of the call, as the call saw them
Return(s, val, site) ==
    LET f == s.frames[Len(s.frames)]
    IN  [s EXCEPT !.frames = SubSeq(s.frames, 1, Len(s.frames) - 1),
                  !.ret = [val |-> val, site |-> site, fn |-> f.fn,
                           height |-> f.height, alpha |-> f.alpha0,
                           beta |-> f.beta, depth |-> f.depth,
                           line |-> [h \in 0..f.height |-> s.stack[h].position]]]

\* panic(searchTimeout): every call in progress is abandoned
Unwind(s) == [s EXCEPT !.frames = <<>>, !.panic = TRUE]

ClearPv(s, height) == [s EXCEPT !.stack[height].pv = <<>>]

\* incNodes without the isDone test
incNodesPanics_Always(n, isDone) == (n + 1) % 256 = 0

\* thread.incNodes: TRUE when the call panics
incNodesPanics(n, isDone) == (n + 1) % 256 = 0 /\ isDone

\* lines 228-233 with the check test left out
NoMoveScore_AlwaysDraw(isCheck, height) == valueDraw

\* alphaBeta after a loop that played no legal move
NoMoveScore(isCheck, height) == IF isCheck THEN lossIn(height) ELSE valueDraw

\* line 273 with the quiet checks asked for one ply deeper as well
genChecks_FromZero(d) == d >= 0

\* the second argument of GenerateCaptures in quiescence
genChecks(d) == d > 0

SortMovesIndex == 4

\* alphaBeta from position.GenerateMoves on: the loop starts at ml[0]
Generate(s, f) ==
    SetTop(s, [f EXCEPT !.ml = Note(GenerateMoves(s.stack[f.height].position), f.hashMove),
                        !.i = 0, !.moveCount = 0, !.quietsSearched = <<>>,
                        !.staticEval = valueInfinity, !.bestMove = MoveEmpty,
                        !.pc = "loop"])

\* alphaBeta from the internal iterative deepening test on
AfterNull(s, f) ==
    IF f.depth >= 4 /\ f.hashMove = MoveEmpty /\ f.beta > f.alpha + PawnValue \div 2
    THEN Call(s, [f EXCEPT !.pc = "iid"],
              NewFrame("alphaBeta", f.alpha, f.beta, f.depth - 2, f.height))
    ELSE Generate(s, f)

\* line 99 letting height maxHeight through
AtMaxHeight_OffByOne(height) == height > maxHeight

\* line 99: the height test
AtMaxHeight(height) == height >= maxHeight

\* alphaBeta from its first line to the null-move search
ABEntryStep(s, f) ==
    LET h  == f.height
        s1 == ClearPv(s, h)
    IN  IF AtMaxHeight(h) \/ isDraw(s.stack, historyKeys, h)
        THEN Return(s1, valueDraw, "draw")
        ELSE IF f.depth <= 0
        THEN Call(s1, [f EXCEPT !.pc = "qs"],
                  NewFrame("quiescence", f.alpha, f.beta, 1, h))
        ELSE IF incNodesPanics(s.nodes, abDone)
        THEN Unwind([s1 EXCEPT !.nodes = s.nodes + 1])
        ELSE
        LET s2       == [s1 EXCEPT !.nodes = s.nodes + 1]
            position == s.stack[h].position
            isCheck  == IsCheck(position)
            tt       == Read(s.transTable, position)
            ttScore  == valueFromTT(tt.score, h)
            f1       == [f EXCEPT !.isCheck = isCheck,
                                  !.hashMove = IF tt.ok THEN tt.move ELSE MoveEmpty]
            nd       == f.depth - 4
        IN  IF winIn(h + 1) <= f.alpha THEN Return(s2, f.alpha, "mdpAlpha")
            ELSE IF lossIn(h + 2) >= f.beta /\ ~isCheck THEN Return(s2, f.beta, "mdpBeta")
            ELSE IF tt.ok /\ tt.depth >= f.depth /\ ttScore >= f.beta
                    /\ HasBound(tt.bound, boundLower)
            THEN Return(s2, f.beta, "ttBeta")
            ELSE IF tt.ok /\ tt.depth >= f.depth /\ ttScore <= f.alpha
                    /\ HasBound(tt.bound, boundUpper)
            THEN Return(s2, f.alpha, "ttAlpha")
            ELSE IF f.depth >= 2 /\ ~isCheck /\ position.LastMove # MoveEmpty
                    /\ f.beta < valueWin /\ ~isLateEndgame(position)
            THEN Call([s2 EXCEPT !.stack[h + 1].position = MakeNullMove(position)],
                      [f1 EXCEPT !.pc = "null", !.newDepth = nd],
                      IF nd <= 0
                      THEN NewFrame("quiescence", -f.beta, -(f.beta - 1), 1, h + 1)
                      ELSE NewFrame("alphaBeta", -f.beta, -(f.beta - 1), nd, h + 1))
            ELSE AfterNull(s2, f1)

\* one pass of the move loop of alphaBeta, up to the search of the move
ABLoopStep(s, f) ==
    LET h        == f.height
        position == s.stack[h].position
        pre      == SubSeq(f.ml, 1, f.i)
        suf      == SubSeq(f.ml, f.i + 1, Len(f.ml))
        ml1      == IF f.i < SortMovesIndex THEN pre \o moveToTop(suf)
                    ELSE IF f.i = SortMovesIndex THEN pre \o sortMoves(suf)
                    ELSE f.ml
        move     == ml1[f.i + 1].Move
    IN  IF ~MakeMoveOk(position, move)
        THEN SetTop(s, [f EXCEPT !.ml = ml1, !.i = f.i + 1])
        ELSE
        LET child == MakeMove(position, move)
            s1    == [s EXCEPT !.stack[h + 1].position = child]
            mc    == f.moveCount + 1
            nd    == newDepth(f.depth, position, child)
            late  == /\ ~isCaptureOrPromotion(move) /\ mc > 1
                     /\ ~f.isCheck /\ ~IsCheck(child)
                     /\ ml1[f.i + 1].Key < sortTableKeyImportant
                     /\ ~isPawnAdvance(move)
                     /\ f.alpha > valueLoss
            se    == IF late /\ f.depth <= 1 /\ f.staticEval = valueInfinity
                     THEN Evaluate(position) ELSE f.staticEval
            skip  == late /\ (\/ (f.depth <= 1 /\ se + PawnValue * f.depth <= f.alpha)
                              \/ (f.depth <= 2 /\ mc >= 9 + 3 * f.depth))
            reduction == IF late /\ f.depth >= 3
                         THEN lateMoveReduction(f.depth, mc) ELSE 0
            f1    == [f EXCEPT !.ml = ml1, !.moveCount = mc, !.staticEval = se,
                               !.move = move, !.newDepth = nd]
            f2    == [f1 EXCEPT !.quietsSearched =
                                  IF isCaptureOrPromotion(move) THEN @ ELSE Append(@, move)]
        IN  IF skip THEN SetTop(s1, [f1 EXCEPT !.i = f.i + 1])
            ELSE IF reduction > 0
            THEN Call(s1, [f2 EXCEPT !.pc = "lmr"],
                      NewFrame("alphaBeta", -(f.alpha + 1), -f.alpha,
                               f.depth - 1 - reduction, h + 1))
            ELSE Call(s1, [f2 EXCEPT !.pc = "full"],
                      NewFrame("alphaBeta", -f.beta, -f.alpha, nd, h + 1))

\* lines 217-224 without the break
ABScoreStep_NoCutoff(s, f, score) ==
    IF score > f.alpha
    THEN SetTop([s EXCEPT !.stack[f.height].pv =
                            <<f.move>> \o s.stack[f.height + 1].pv],
                [f EXCEPT !.alpha = score, !.bestMove = f.move, !.i = f.i + 1,
                          !.pc = "loop"])
    ELSE SetTop(s, [f EXCEPT !.i = f.i + 1, !.pc = "loop"])

\* alphaBeta after the full-window search of f.move returned score
ABScoreStep(s, f, score) ==
    IF score > f.alpha
    THEN IF score >= f.beta
         THEN SetTop(s, [f EXCEPT !.alpha = score, !.bestMove = f.move, !.pc = "after"])
         ELSE SetTop([s EXCEPT !.stack[f.height].pv =
                                 <<f.move>> \o s.stack[f.height + 1].pv],
                     [f EXCEPT !.alpha = score, !.bestMove = f.move, !.i = f.i + 1,
                               !.pc = "loop"])
    ELSE SetTop(s, [f EXCEPT !.i = f.i + 1, !.pc = "loop"])

\* lines 239-245 with LOWER kept for the fail high
ttType_LowerOnFailHigh(bestMove, a, b) ==
    (IF a >= b THEN boundLower ELSE 0) + (IF a < b THEN boundUpper ELSE 0)

\* lines 239-245
ttType(bestMove, a, b) ==
    (IF bestMove # MoveEmpty THEN boundLower ELSE 0)
    + (IF a < b THEN boundUpper ELSE 0)

\* alphaBeta after the move loop.  sortTable.Update feeds the ordering keys of
\* later Note calls only; Note gives fixed keys here, so it leaves no trace.
ABAfterStep(s, f) ==
    LET h        == f.height
        position == s.stack[h].position
        bound    == ttType(f.bestMove, f.alpha, f.beta)
    IN  IF f.moveCount = 0
        THEN Return(s, NoMoveScore(f.isCheck, h), "nomoves")
        ELSE Return([s EXCEPT !.transTable =
                                Update(s.transTable, position, f.depth,
                                       valueToTT(f.alpha, h), bound, f.bestMove)],
                    f.alpha, "end")

\* quiescence from its first line to the move loop
QSEntryStep(s, f) ==
    LET h        == f.height
        s1       == [ClearPv(s, h) EXCEPT !.nodes = s.nodes + 1]
    IN  IF incNodesPanics(s.nodes, abDone) THEN Unwind(s1)
        ELSE IF h >= maxHeight THEN Return(s1, valueDraw, "qsHeight")
        ELSE
        LET position == s.stack[h].position
            isCheck  == IsCheck(position)
            eval     == IF isCheck THEN 0 ELSE Evaluate(position)
            alpha1   == IF ~isCheck /\ eval > f.alpha THEN eval ELSE f.alpha
            ml0      == IF IsCheck(position) THEN GenerateMoves(position)
                        ELSE GenerateCaptures(position, genChecks(f.depth))
        IN  IF ~isCheck /\ eval >= f.beta THEN Return(s1, alpha1, "standpat")
            ELSE SetTop(s1, [f EXCEPT !.isCheck = isCheck, !.eval = eval,
                                      !.alpha = alpha1,
                                      !.ml = sortMoves(Note(ml0, MoveEmpty)),
                                      !.i = 0, !.moveCount = 0, !.pc = "loop"])

\* one pass of the move loop of quiescence, up to the search of the move
QSLoopStep(s, f) ==
    LET h        == f.height
        position == s.stack[h].position
        move     == f.ml[f.i + 1].Move
        danger   == isDangerCapture(position, move)
        child    == MakeMove(position, move)
    IN  IF ~f.isCheck /\ ~danger /\ ~seeGEZero(position, move)
        THEN SetTop(s, [f EXCEPT !.i = f.i + 1])
        ELSE IF ~MakeMoveOk(position, move)
        THEN SetTop(s, [f EXCEPT !.i = f.i + 1])
        ELSE IF ~f.isCheck /\ ~danger /\ ~IsCheck(child)
                /\ f.eval + moveValue(move) + 2 * PawnValue <= f.alpha
        THEN SetTop([s EXCEPT !.stack[h + 1].position = child],
                    [f EXCEPT !.i = f.i + 1, !.moveCount = f.moveCount + 1])
        ELSE Call([s EXCEPT !.stack[h + 1].position = child],
                  [f EXCEPT !.moveCount = f.moveCount + 1, !.move = move, !.pc = "child"],
                  NewFrame("quiescence", -f.beta, -f.alpha, f.depth - 1, h + 1))

\* quiescence after the move loop
QSAfterStep(s, f) ==
    IF f.isCheck /\ f.moveCount = 0
    THEN Return(s, lossIn(f.height), "qsMate")
    ELSE Return(s, f.alpha, "qsEnd")

(***************************************************************************)
(* The calls followed: alphaBeta(alpha, beta, depth, 1) as the root search *)
(* makes it, on the position after root move `move`, with the history keys *)
(* Prepare builds from the game that led to the root.                      *)
(***************************************************************************)
RECURSIVE PlayLine(_, _)
PlayLine(p, line) ==
    IF line = <<>> THEN <<p>>
    ELSE <<p>> \o PlayLine(MakeMove(p, Head(line)), Tail(line))

Last(seq) == seq[Len(seq)]

ABCall(positions, move, a, b, d, n, isDone) ==
    [positions |-> positions, move |-> move, alpha |-> a, beta |-> b,
     depth |-> d, nodes |-> n, done |-> isDone]

\* windows of the root search: the full one, scout windows, and the two ends
\* of the mate band
Windows ==
    { <<-valueInfinity, valueInfinity>>, <<-1, 0>>, <<PawnValue, PawnValue + 1>>,
      <<-PawnValue - 1, -PawnValue>>, <<-PawnValue, PawnValue>>,
      <<winIn(2), winIn(1)>>, <<lossIn(1), lossIn(3)>> }

\* lines 46-80: the window of the first-move search, of a worker's scout
\* search and of its re-search, for the alpha the worker read
RootWindow(site, localAlpha) ==
    IF site = "first" THEN <<-valueInfinity, valueInfinity>>
    ELSE IF site = "scout" THEN <<-(localAlpha + 1), -localAlpha>>
    ELSE <<-valueInfinity, -localAlpha>>

RootWindows ==
    {RootWindow(site, la) :
        site \in {"first", "scout", "research"},
        la \in {-PawnValue, 0, PawnValue, lossIn(2), winIn(3)}}

\* a middlegame with every kind of move
Middlegame(b) ==
    [StartPosition EXCEPT !.moves = <<"pin", "K", "st", "#", "+", "x", "P7">>,
                          !.bal = b, !.heavy = 2, !.Rule50 = 1, !.LastMove = "K"]

\* the last heavy piece hangs, one minor piece each side would be left
Endgame ==
    [StartPosition EXCEPT !.moves = <<"K", "x">>, !.minors = 1,
                          !.Rule50 = 1, !.LastMove = "K"]

\* 99 reversible half-moves played, a mate and a stalemate on the board
Rule50Edge ==
    [StartPosition EXCEPT !.moves = <<"#", "st", "K">>, !.Rule50 = 99,
                          !.LastMove = "K"]

\* kings only step back and forth
Shuffle == [StartPosition EXCEPT !.moves = <<"K">>]

ABCalls ==
    {ABCall(<<Middlegame(0)>>, m, w[1], w[2], 2, 0, FALSE) :
        m \in {"K", "x"}, w \in RootWindows}
    \cup
    {ABCall(<<Middlegame(0)>>, "K", w[1], w[2], 2, n, FALSE) :
        w \in {<<-valueInfinity, valueInfinity>>, <<-1, 0>>}, n \in {250, 254, 255}}
    \cup
    {ABCall(<<Middlegame(b)>>, m, w[1], w[2], d, 0, FALSE) :
        b \in {0, PawnValue}, m \in {"K", "st", "#", "x"}, w \in Windows, d \in 0..3}
    \cup
    {ABCall(<<Middlegame(0)>>, m, -1, 0, 2, n, TRUE) : m \in {"K"}, n \in {0, 250}}
    \cup
    {ABCall(<<Middlegame(0)>>, "K", w[1], w[2], 4, 0, FALSE) :
        w \in {<<-valueInfinity, valueInfinity>>, <<-PawnValue, PawnValue>>}}
    \cup
    {ABCall(<<Endgame>>, m, w[1], w[2], d, 0, FALSE) :
        m \in {"K", "x"}, w \in {<<-valueInfinity, valueInfinity>>, <<-1, 0>>}, d \in 0..2}
    \cup
    {ABCall(<<Rule50Edge>>, m, w[1], w[2], d, 0, FALSE) :
        m \in {"K", "#", "st"}, w \in {<<-valueInfinity, valueInfinity>>, <<-1, 0>>},
        d \in 1..3}
    \cup
    {ABCall(PlayLine(Shuffle, [i \in 1..n |-> "K"]), "K", w[1], w[2], d, 0, FALSE) :
        n \in {4, 6},
        w \in {<<0, 1>>, <<-PawnValue - 1, -PawnValue>>, <<-PawnValue, PawnValue>>},
        d \in {2, 4, 10}}

InitAB ==
    /\ EngineIdle
    /\ TimeControlIdle
    /\ TunerIdle
    /\ \E c \in ABCalls :
        /\ stack = [h \in 0..maxHeight |->
                      [position |-> IF h = 0 THEN Last(c.positions)
                                    ELSE IF h = 1 THEN MakeMove(Last(c.positions), c.move)
                                    ELSE StartPosition,
                       pv |-> <<>>]]
        /\ frames = <<NewFrame("alphaBeta", c.alpha, c.beta, c.depth, 1)>>
        /\ historyKeys = getHistoryKeys(c.positions)
        /\ nodes = c.nodes
        /\ abDone = c.done
    /\ transTable = <<>>
    /\ ret = NoRet
    /\ abPanic = FALSE

At(fn, at) == frames # <<>> /\ ~abPanic /\ Top.fn = fn /\ Top.pc = at

ABEntry == At("alphaBeta", "entry") /\ Apply(ABEntryStep(Cur, Top))

\* line 104: the value of quiescence is returned as it is
ABQsReturn == At("alphaBeta", "qs") /\ Apply(Return(Cur, ret.val, "qs"))

\* lines 141-148
ABNullReturn ==
    /\ At("alphaBeta", "null")
    /\ Apply(IF -ret.val >= Top.beta /\ -ret.val < valueWin
             THEN Return(Cur, Top.beta, "null")
             ELSE AfterNull(Cur, Top))

\* line 154
ABIidReturn ==
    /\ At("alphaBeta", "iid")
    /\ Apply(Generate(Cur, [Top EXCEPT !.hashMove =
                               Read(transTable, stack[Top.height].position).move]))

ABLoop ==
    /\ At("alphaBeta", "loop")
    /\ Top.i < Len(Top.ml)
    /\ Apply(ABLoopStep(Cur, Top))

\* lines 209-215
ABLmrReturn ==
    /\ At("alphaBeta", "lmr")
    /\ Apply(IF -ret.val <= Top.alpha
             THEN SetTop(Cur, [Top EXCEPT !.i = Top.i + 1, !.pc = "loop"])
             ELSE Call(Cur, [Top EXCEPT !.pc = "full"],
                       NewFrame("alphaBeta", -Top.beta, -Top.alpha, Top.newDepth,
                                Top.height + 1)))

ABFullReturn == At("alphaBeta", "full") /\ Apply(ABScoreStep(Cur, Top, -ret.val))

ABAfter ==
    /\ \/ At("alphaBeta", "after")
       \/ (At("alphaBeta", "loop") /\ Top.i = Len(Top.ml))
    /\ Apply(ABAfterStep(Cur, Top))

QSEntry == At("quiescence", "entry") /\ Apply(QSEntryStep(Cur, Top))

QSLoop ==
    /\ At("quiescence", "loop")
    /\ Top.i < Len(Top.ml)
    /\ Apply(QSLoopStep(Cur, Top))

\* lines 291-298
QSReturn == At("quiescence", "child") /\ Apply(ABScoreStep(Cur, Top, -ret.val))

QSAfter ==
    /\ \/ At("quiescence", "after")
       \/ (At("quiescence", "loop") /\ Top.i = Len(Top.ml))
    /\ Apply(QSAfterStep(Cur, Top))

\* the context of the search is cancelled or its deadline passes
ABCancel ==
    /\ frames # <<>> /\ ~abPanic
    /\ ~abDone
    /\ abDone' = TRUE
    /\ UNCHANGED <<frames, stack, ret, transTable, historyKeys, nodes, abPanic>>
    /\ UNCHANGED <<rootVars, tcVars, tunerVars>>

NextAB ==
    \/ ABCancel
    \/ ABEntry
    \/ ABQsReturn
    \/ ABNullReturn
    \/ ABIidReturn
    \/ ABLoop
    \/ ABLmrReturn
    \/ ABFullReturn
    \/ ABAfter
    \/ QSEntry
    \/ QSLoop
    \/ QSReturn
    \/ QSAfter

SpecAB == InitAB /\ [][NextAB]_vars

(***************************************************************************)
(* Properties of alphaBeta and quiescence.  ret describes the call that    *)
(* returned last: its arguments, its value, the return statement taken,    *)
(* and in ret.line the positions of the stack up to its height.            *)
(***************************************************************************)
ReturnedAB == ret.fn = "alphaBeta"

RetPosition == ret.line[ret.height]

RetStack == [h \in DOMAIN ret.line |-> [position |-> ret.line[h], pv |-> <<>>]]

NoLegalMove(p) ==
    \A i \in 1..Len(GenerateMoves(p)) : ~MakeMoveOk(p, GenerateMoves(p)[i])

MateOrStalemateScore(p, height) == IF IsCheck(p) THEN lossIn(height) ELSE valueDraw

InsufficientMaterial(p) == p.heavy = 0 /\ p.minors <= 1

\* position i of the line is the same position as the last one, and no null
\* move or rule-50 reset lies between the two
RepeatsAncestor(line, height, i) ==
    /\ Key(line[i]) = Key(line[height])
    /\ \A j \in (i + 1)..(height - 1) :
          line[j].Rule50 # 0 /\ line[j].LastMove # MoveEmpty

\* the line from the root to height holds no null move and no rule-50 reset
LineUnbroken(line, height) ==
    \A j \in 0..(height - 1) : line[j].Rule50 # 0 /\ line[j].LastMove # MoveEmpty

\* C8 (as claimed): alphaBeta returns valueDraw from its first test, for every
\* window and depth, when the position is a draw by insufficient material, by
\* a rule-50 counter above 100, by repeating an ancestor of the stack, or by
\* two occurrences in the history keys.
C8_DrawReturnsValueDraw ==
    (/\ ReturnedAB
     /\ \/ InsufficientMaterial(RetPosition)
        \/ RetPosition.Rule50 > 100
        \/ \E i \in 0..(ret.height - 1) : RepeatsAncestor(ret.line, ret.height, i)
        \/ Lookup(historyKeys, Key(RetPosition)) >= 2)
        => ret.site = "draw" /\ ret.val = valueDraw

\* C8 (amended): the same, the history keys counting only when the line from
\* the root to the position holds no null move and no rule-50 reset.
C8_DrawReturnsValueDrawUnbroken ==
    (/\ ReturnedAB
     /\ \/ InsufficientMaterial(RetPosition)
        \/ RetPosition.Rule50 > 100
        \/ \E i \in 0..(ret.height - 1) : RepeatsAncestor(ret.line, ret.height, i)
        \/ /\ LineUnbroken(ret.line, ret.height)
           /\ Lookup(historyKeys, Key(RetPosition)) >= 2)
        => ret.site = "draw" /\ ret.val = valueDraw

\* a draw by the history keys alone
C8_Witness ==
    /\ ReturnedAB /\ ret.site = "draw" /\ ret.val = valueDraw
    /\ ret.height < maxHeight
    /\ ~InsufficientMaterial(RetPosition) /\ RetPosition.Rule50 <= 100
    /\ \A i \in 0..(ret.height - 1) : ~RepeatsAncestor(ret.line, ret.height, i)
    /\ LineUnbroken(ret.line, ret.height)
    /\ Lookup(historyKeys, Key(RetPosition)) >= 2

\* the calls in progress above call k of frames
Below(k) == (k + 1)..Len(frames)

DepthZeroCall(k) == frames[k].fn = "alphaBeta" /\ frames[k].depth <= 0

\* C9 (as claimed): a call of alphaBeta with depth <= 0 that passes the draw
\* test hands over to quiescence; below it there are calls of quiescence
\* only, and no quiet move is in any of their move lists.
C9_NoQuietMoveBelowDepthZero ==
    /\ (ReturnedAB /\ ret.depth <= 0) => ret.site \in {"draw", "qs"}
    /\ \A k \in DOMAIN frames :
        DepthZeroCall(k) =>
            \A j \in Below(k) :
                /\ frames[j].fn = "quiescence"
                /\ \A x \in DOMAIN frames[j].ml :
                      isCaptureOrPromotion(frames[j].ml[x].Move)

\* C9 (amended): a call of alphaBeta with depth <= 0 that passes the draw
\* test hands over to quiescence; below it there are calls of quiescence
\* only, and a quiet move is in a move list only as an evasion, when the side
\* to move is in check, or as a checking move in the first call of quiescence
\* (the one with depth 1).
C9_QuietOnlyEvasionsAndFirstPlyChecks ==
    /\ (ReturnedAB /\ ret.depth <= 0) => ret.site \in {"draw", "qs"}
    /\ \A k \in DOMAIN frames :
        DepthZeroCall(k) =>
            \A j \in Below(k) :
                /\ frames[j].fn = "quiescence"
                /\ \A x \in DOMAIN frames[j].ml :
                      \/ isCaptureOrPromotion(frames[j].ml[x].Move)
                      \/ frames[j].isCheck
                      \/ (frames[j].depth = 1 /\ GivesCheck(frames[j].ml[x].Move))

\* two plies into quiescence, out of check, with a checking move on the board:
\* only captures are in the move list
C9_Witness ==
    \E k \in DOMAIN frames :
        /\ DepthZeroCall(k)
        /\ Len(frames) = k + 2
        /\ Top.fn = "quiescence" /\ Top.pc = "loop" /\ Top.depth = 0 /\ ~Top.isCheck
        /\ \E x \in DOMAIN stack[Top.height].position.moves :
              GivesCheck(stack[Top.height].position.moves[x])
        /\ Top.ml # <<>>
        /\ \A x \in DOMAIN Top.ml : isCaptureOrPromotion(Top.ml[x].Move)

(***************************************************************************)
(* The tuner.  Scores and the sigmoid are in units of 1/Scale, an error is *)
(* the exact quotient num / den of the sums the code forms, or NaN.        *)
(***************************************************************************)
MaxCPU == 2

MaxLines == 2

MaxTuneIterations == 3

NumWeights == 2

Scale == 4

\* sigmoid on the grid of the model: monotone, sigmoid(0) = 1/2,
\* sigmoid(s) + sigmoid(-s) = 1, saturated beyond +-2
sigmoid(x) == IF x <= -2 THEN 0 ELSE IF x >= 2 THEN Scale ELSE x + 2

Abs(x) == IF x < 0 THEN -x ELSE x

RECURSIVE SumSeq(_)
SumSeq(q) == IF q = <<>> THEN 0 ELSE Head(q) + SumSeq(Tail(q))

RECURSIVE GCD(_, _)
GCD(a, b) == IF b = 0 THEN a ELSE GCD(b, a % b)

\* the value n / d for d > 0, in lowest terms
Rat(n, d) ==
    LET g == GCD(Abs(n), d)
    IN  [nan |-> FALSE, num |-> n \div g, den |-> d \div g]

\* a / b of float64: 0/0 is NaN
Quot(a, b) == IF b = 0 THEN NaN ELSE Rat(a, b)

RAdd(a, b) ==
    IF a.nan \/ b.nan THEN NaN ELSE Rat(a.num * b.den + b.num * a.den, a.den * b.den)

RSub(a, b) ==
    IF a.nan \/ b.nan THEN NaN ELSE Rat(a.num * b.den - b.num * a.den, a.den * b.den)

RDiv(a, k) == IF a.nan THEN NaN ELSE Rat(a.num, a.den * k)

\* a < b of float64: false when either side is NaN
RLess(a, b) == ~a.nan /\ ~b.nan /\ a.num * b.den < b.num * a.den

REq(a, b) == (a.nan /\ b.nan) \/ (~a.nan /\ ~b.nan /\ a.num * b.den = b.num * a.den)

\* TunableEvaluator: a linear evaluation of the features of the position;
\* Apply(nil) hands out the weights the evaluator was built with
DefaultWeights == [j \in 1..NumWeights |-> 0]

EvaluateWith(w, p) == SumSeq([j \in 1..NumWeights |-> w[j] * p.x[j]])

\* the lines a training file is made of
Entry(score, white, check, x) ==
    [kind |-> "entry", score |-> score,
     position |-> [WhiteMove |-> white, check |-> check, x |-> x]]

Lines ==
    { Entry(Scale, TRUE, FALSE, <<1, 0>>),
      Entry(Scale, FALSE, FALSE, <<0, 1>>),
      Entry(0, TRUE, TRUE, <<1, 0>>),
      [kind |-> "unparseable"],
      [kind |-> "badFen"] }

Files ==
    {[exists |-> FALSE, lines |-> <<>>, ioError |-> FALSE]}
    \cup
    {[exists |-> TRUE, lines |-> l, ioError |-> e] :
        l \in UNION {[1..n -> Lines] : n \in 0..MaxLines}, e \in BOOLEAN}

\* readSamples from line 76 on: the samples so far, the lines still to scan
RECURSIVE Scan(_, _, _)
Scan(acc, rest, ioError) ==
    IF rest = <<>>
    THEN [samples |-> acc, err |-> IF ioError THEN "scanner" ELSE "nil"]
    ELSE IF Head(rest).kind = "unparseable"
    THEN [samples |-> acc, err |-> "parseLearnEntry"]
    ELSE IF Head(rest).kind = "badFen"
    THEN [samples |-> acc, err |-> "NewPositionFromFEN"]
    ELSE IF Head(rest).position.check
    THEN Scan(acc, Tail(rest), ioError)
    ELSE Scan(Append(acc, [score |-> Head(rest).score,
                           position |-> Head(rest).position]),
              Tail(rest), ioError)

\* readSamples: what t.samples holds afterwards, and the error returned
readSamples(f, before) ==
    IF ~f.exists THEN [samples |-> before, err |-> "os.Open"]
    ELSE Scan(<<>>, f.lines, f.ioError)

regularization(w, lambda) == SumSeq([j \in 1..Len(w) |-> Abs(w[j])]) * lambda

\* the square of diff for one sample, computeError lines 120-125
SquaredDiff(w, entry) ==
    LET e    == EvaluateWith(w, entry.position)
        eval == IF entry.position.WhiteMove THEN e ELSE -e
        diff == entry.score - sigmoid(eval)
    IN  diff * diff

\* computeError lines 131-135
SumUp(th, n, w, lambda) ==
    RAdd(Quot(SumSeq([i \in 1..Len(th) |-> th[i].sum]), n * Scale * Scale),
         Rat(regularization(w, lambda), 1))

emaPeriod == 3

\* 0.00004
stopErrChange == Rat(4, 100000)

\* the closure shouldBreak returns, called with err: its next state and result
shouldBreak(b, err) ==
    LET it        == b.iteration + 1
        errChange == RSub(b.prevErr, err)
        ema       == RAdd(b.ema, RDiv(RSub(errChange, b.ema), emaPeriod))
    IN  IF it = 0
        THEN [state |-> [iteration |-> it, ema |-> b.ema, prevErr |-> err],
              result |-> FALSE]
        ELSE IF it = 1
        THEN [state |-> [iteration |-> it, ema |-> errChange, prevErr |-> err],
              result |-> FALSE]
        ELSE [state |-> [iteration |-> it, ema |-> ema, prevErr |-> err],
              result |-> RLess(ema, stopErrChange)]

\* line 159
Improved(e, best) == RLess(e, best)

\* line 164 left out: the tried value stays
Restored_Not(ws, j, oldValue) == ws

\* line 164
Restored(ws, j, oldValue) == [ws EXCEPT ![j] = oldValue]

\* line 162 adding one instead of doubling
StepAfterImproved_PlusOne(ss, j) == [ss EXCEPT ![j] = ss[j] + 1]

\* line 162
StepAfterImproved(ss, j) == [ss EXCEPT ![j] = ss[j] * 2]

\* lines 165-169
StepAfterWorse(ss, j, oldStep) == [ss EXCEPT ![j] = IF oldStep > 0 THEN -1 ELSE 1]

InitTuner ==
    /\ EngineIdle /\ ThreadIdle /\ TimeControlIdle
    /\ file \in Files
    /\ Lambda \in {0, 1}
    /\ NumCPU \in 1..MaxCPU
    /\ samples = <<>>
    /\ threads = <<>>
    /\ weights = <<>>
    /\ steps = <<>>
    /\ bestE = NaN
    /\ weightIndex = 0
    /\ old = [oldStep |-> 0, oldValue |-> 0]
    /\ iteration = 0
    /\ breakF = NoBreakF
    /\ tpc = "ready"
    /\ logged = <<>>
    /\ printed = <<>>
    /\ runErr = "none"
    /\ tunerIndex = -1
    /\ cpc = <<>>
    /\ taking = <<>>
    /\ er = NaN
    /\ evaluated = <<>>

TunerFrame == UNCHANGED <<file, Lambda, NumCPU, rootVars, abVars, tcVars>>

\* computeError lines 107-129 for the caller named tag: the workers are started
StartComputeError(tag) ==
    /\ tpc' = tag
    /\ tunerIndex' = -1
    /\ cpc' = [w \in 1..NumCPU |-> "start"]
    /\ taking' = [w \in 1..NumCPU |-> -1]
    /\ evaluated' = [w \in 1..NumCPU |-> <<>>]

ComputingError == tpc \in {"init", "step", "final"}

\* wg.Wait() returns
AllDone == ComputingError /\ \A w \in DOMAIN cpc : cpc[w] = "done"

\* Run up to the first computeError of coordinateDescent, or to its error return
Run ==
    /\ tpc = "ready"
    /\ LET r == readSamples(file, samples)
       IN  /\ samples' = r.samples
           /\ IF r.err # "nil"
              THEN /\ logged' = logged \o <<"Tune started.", "Tune finished.">>
                   /\ runErr' = r.err
                   /\ tpc' = "done"
                   /\ UNCHANGED <<threads, weights, tunerIndex, cpc, taking, evaluated>>
              ELSE /\ logged' = logged \o <<"Tune started.", "Loaded", "Params count">>
                   /\ threads' = [w \in 1..NumCPU |->
                                    [evaluator |-> DefaultWeights, sum |-> 0]]
                   /\ weights' = DefaultWeights
                   /\ StartComputeError("init")
                   /\ UNCHANGED runErr
    /\ UNCHANGED <<steps, bestE, weightIndex, old, iteration, breakF, printed, er>>
    /\ TunerFrame

WorkerFrame ==
    /\ UNCHANGED <<samples, weights, steps, bestE, weightIndex, old, iteration,
                   breakF, tpc, logged, printed, runErr, er>>
    /\ TunerFrame

\* computeError lines 112-113
ErrorWorkerStart(w) ==
    /\ ComputingError /\ cpc[w] = "start"
    /\ threads' = [threads EXCEPT ![w] = [evaluator |-> weights, sum |-> 0]]
    /\ cpc' = [cpc EXCEPT ![w] = "take"]
    /\ UNCHANGED <<tunerIndex, taking, evaluated>>
    /\ WorkerFrame

\* computeError lines 115-118 with every worker handed sample 0
ErrorWorkerTake_First(w) ==
    /\ ComputingError /\ cpc[w] = "take"
    /\ tunerIndex' = tunerIndex + 1
    /\ taking' = [taking EXCEPT ![w] = 0]
    /\ cpc' = [cpc EXCEPT ![w] = IF tunerIndex' >= Len(samples) THEN "done" ELSE "add"]
    /\ UNCHANGED <<threads, evaluated>>
    /\ WorkerFrame

\* computeError lines 115-118
ErrorWorkerTake(w) ==
    /\ ComputingError /\ cpc[w] = "take"
    /\ tunerIndex' = tunerIndex + 1
    /\ taking' = [taking EXCEPT ![w] = tunerIndex']
    /\ cpc' = [cpc EXCEPT ![w] = IF tunerIndex' >= Len(samples) THEN "done" ELSE "add"]
    /\ UNCHANGED <<threads, evaluated>>
    /\ WorkerFrame

\* computeError lines 119-125
ErrorWorkerAdd(w) ==
    /\ ComputingError /\ cpc[w] = "add"
    /\ threads' = [threads EXCEPT ![w].sum =
                     @ + SquaredDiff(threads[w].evaluator, samples[taking[w] + 1])]
    /\ evaluated' = [evaluated EXCEPT ![w] = Append(@, taking[w])]
    /\ cpc' = [cpc EXCEPT ![w] = "take"]
    /\ UNCHANGED <<tunerIndex, taking>>
    /\ WorkerFrame

\* coordinateDescent lines 154-158 for weight j of ws
BeginStep(ws, ss, j) ==
    /\ weightIndex' = j
    /\ old' = [oldStep |-> ss[j], oldValue |-> ws[j]]
    /\ weights' = [ws EXCEPT ![j] = ws[j] + ss[j]]
    /\ steps' = ss
    /\ StartComputeError("step")

\* coordinateDescent lines 148-153: iteration it begins
LoopTop(ws, ss, best, it, bf) ==
    LET b == shouldBreak(bf, best)
    IN  /\ breakF' = b.state
        /\ iteration' = it
        /\ IF b.result
           THEN /\ weights' = ws /\ steps' = ss
                /\ UNCHANGED <<weightIndex, old>>
                /\ StartComputeError("final")
           ELSE IF it > MaxTuneIterations
           THEN /\ weights' = ws /\ steps' = ss /\ tpc' = "bound"
                /\ UNCHANGED <<weightIndex, old, tunerIndex, cpc, taking, evaluated>>
           ELSE BeginStep(ws, ss, 1)

\* coordinateDescent lines 171-174: the step of weightIndex is over
StepDone(ws, ss, best) ==
    /\ bestE' = best
    /\ IF weightIndex < Len(ws)
       THEN /\ BeginStep(ws, ss, weightIndex + 1)
            /\ UNCHANGED <<iteration, breakF, logged>>
       ELSE /\ logged' = Append(logged, "Iteration")
            /\ LoopTop(ws, ss, best, iteration + 1, breakF)

\* coordinateDescent lines 139-153
DescentBegin ==
    /\ tpc = "init" /\ AllDone
    /\ er' = SumUp(threads, Len(samples), weights, Lambda)
    /\ bestE' = er'
    /\ LoopTop(weights, [j \in 1..Len(weights) |-> 1], er', 1, NoBreakF)
    /\ UNCHANGED <<samples, threads, logged, printed, runErr>>
    /\ TunerFrame

\* coordinateDescent lines 158-162
StepImproved ==
    /\ tpc = "step" /\ AllDone
    /\ er' = SumUp(threads, Len(samples), weights, Lambda)
    /\ Improved(er', bestE)
    /\ StepDone(weights, StepAfterImproved(steps, weightIndex), er')
    /\ UNCHANGED <<samples, threads, printed, runErr>>
    /\ TunerFrame

\* coordinateDescent lines 158-170
StepWorse ==
    /\ tpc = "step" /\ AllDone
    /\ er' = SumUp(threads, Len(samples), weights, Lambda)
    /\ ~Improved(er', bestE)
    /\ StepDone(Restored(weights, weightIndex, old.oldValue),
                StepAfterWorse(steps, weightIndex, old.oldStep), bestE)
    /\ UNCHANGED <<samples, threads, printed, runErr>>
    /\ TunerFrame

\* Run lines 61-65 and the deferred log line
RunEnd ==
    /\ tpc = "final" /\ AllDone
    /\ er' = SumUp(threads, Len(samples), weights, Lambda)
    /\ printed' = printed \o <<"Error", "weights">>
    /\ logged' = Append(logged, "Tune finished.")
    /\ runErr' = "nil"
    /\ tpc' = "done"
    /\ UNCHANGED <<samples, threads, weights, steps, bestE, weightIndex, old,
                   iteration, breakF, tunerIndex, cpc, taking, evaluated>>
    /\ TunerFrame

NextTuner ==
    \/ Run
    \/ \E w \in DOMAIN cpc : ErrorWorkerStart(w)
    \/ \E w \in DOMAIN cpc : ErrorWorkerTake(w)
    \/ \E w \in DOMAIN cpc : ErrorWorkerAdd(w)
    \/ DescentBegin
    \/ StepImproved
    \/ StepWorse
    \/ RunEnd

SpecTuner == InitTuner /\ [][NextTuner]_vars

\* the error of the weights ws over the samples, by its definition
ErrorOf(ws) ==
    RAdd(Quot(SumSeq([i \in 1..Len(samples) |-> SquaredDiff(ws, samples[i])]),
              Len(samples) * Scale * Scale),
         Rat(regularization(ws, Lambda), 1))

\* the weights as the last finished coordinate step left them: while a step
\* is computing its error, weight weightIndex holds the value being tried
SettledWeights ==
    IF tpc = "step" THEN [weights EXCEPT ![weightIndex] = old.oldValue] ELSE weights

InDescent == tpc \in {"step", "final", "bound"}

\* the coordinate step of this transition kept the value it tried
StepAccepted ==
    /\ tpc = "step" /\ AllDone
    /\ weights'[weightIndex] = old.oldValue + old.oldStep
    /\ \/ tpc' # "step"
       \/ weightIndex' # weightIndex
       \/ old'.oldValue = old.oldValue + old.oldStep

\* C11: in coordinateDescent bestE only changes at an accepted coordinate
\* step, where it strictly decreases, and after every coordinate step,
\* accepted or reverted, bestE is the error of the current weights
C11_BestErrorMonotone ==
    /\ [](InDescent => REq(bestE, ErrorOf(SettledWeights)))
    /\ [][InDescent =>
            /\ bestE' # bestE => StepAccepted
            /\ StepAccepted => RLess(bestE', bestE)
            /\ ~RLess(bestE, bestE')]_vars

\* a reverted step has followed an accepted one
C11_Witness ==
    /\ tpc = "step" /\ iteration = 2
    /\ \E j \in DOMAIN steps : steps[j] > 1
    /\ \E j \in DOMAIN steps : steps[j] = -1
    /\ RLess(bestE, ErrorOf(DefaultWeights))

LoadFailed == tpc = "done" /\ runErr \in {"parseLearnEntry", "NewPositionFromFEN"}

\* C12: when loading fails on an unparseable line or a bad FEN, Run returns
\* that error and the tuner is as before the call: the sample set is not
\* replaced by a partly read one, no worker or evaluator exists, no weight
\* is changed and nothing is printed
C12_FailedLoadLeavesTuner ==
    LoadFailed =>
        /\ samples = <<>>
        /\ threads = <<>>
        /\ weights = <<>>
        /\ printed = <<>>

\* the error of the value tried for weight weightIndex is known
StepEnds == tpc = "step" /\ AllDone

\* C18: a coordinate step for weight j keeps the new weight and doubles
\* step[j] when the error improved, and otherwise restores weight j and sets
\* step[j] to -1 if it was positive and to +1 if not; no other weight or
\* step changes in the step, and no step is ever 0
C18_CoordinateStepFrame ==
    /\ [](\A j \in DOMAIN steps : steps[j] # 0)
    /\ [][StepEnds =>
            LET j        == weightIndex
                improved == RLess(ErrorOf(weights), bestE)
            IN  /\ SettledWeights' =
                       IF improved THEN weights
                       ELSE [weights EXCEPT ![j] = old.oldValue]
                /\ steps' = [steps EXCEPT ![j] =
                                IF improved THEN 2 * old.oldStep
                                ELSE IF old.oldStep > 0 THEN -1 ELSE 1]]_vars

\* steps were doubled in both directions
C18_Witness ==
    /\ InDescent
    /\ \E j \in DOMAIN steps : steps[j] <= -2
    /\ \E j \in DOMAIN steps : steps[j] >= 2

\* how often sample index i was evaluated by worker w
TimesEvaluated(w, i) == Cardinality({k \in DOMAIN evaluated[w] : evaluated[w][k] = i})

RECURSIVE SumOver(_, _)
SumOver(f, S) ==
    IF S = {} THEN 0
    ELSE LET x == CHOOSE y \in S : TRUE IN f[x] + SumOver(f, S \ {x})

SampleIndices == 0..(Len(samples) - 1)

\* a step of the caller of computeError, not of a worker
CallerStep == ~UNCHANGED <<weights, steps, bestE, tpc, er, logged, iteration>>

\* C19: in a call of computeError every sample index is evaluated by exactly
\* one worker exactly once, a worker adds only to its own sum and with its
\* own evaluator, and the sums are added up only after all workers finished
C19_SamplesSplit ==
    /\ [](ComputingError =>
            /\ \A i \in SampleIndices :
                   SumOver([w \in DOMAIN cpc |-> TimesEvaluated(w, i)], DOMAIN cpc)
                       = (IF AllDone THEN 1 ELSE
                          IF i > tunerIndex \/ \E w \in DOMAIN cpc :
                                                 cpc[w] = "add" /\ taking[w] = i
                          THEN 0 ELSE 1)
            /\ \A w \in DOMAIN cpc :
                   /\ \A k \in DOMAIN evaluated[w] : evaluated[w][k] \in SampleIndices
                   /\ cpc[w] # "start" =>
                        /\ threads[w].evaluator = weights
                        /\ threads[w].sum =
                              SumSeq([k \in DOMAIN evaluated[w] |->
                                        SquaredDiff(threads[w].evaluator,
                                                    samples[evaluated[w][k] + 1])]))
    /\ [][ComputingError =>
            /\ \A w \in DOMAIN cpc :
                   threads'[w] # threads[w] => cpc[w] \in {"start", "add"} /\ cpc'[w] = "take"
            /\ CallerStep => AllDone /\ REq(er', ErrorOf(weights))]_vars

\* two workers have each evaluated one of two samples
C19_Witness ==
    /\ AllDone
    /\ NumCPU = 2
    /\ \A w \in DOMAIN cpc : Len(evaluated[w]) = 1

\* C13: at every call of alphaBeta and of quiescence made by a search (the
\* first-move search, scout and re-search of the root, null-move search,
\* internal iterative deepening, reduced and full-window child searches)
\* the window has alpha < beta
C13_WindowOpen ==
    \A k \in DOMAIN frames : frames[k].alpha0 < frames[k].beta

\* a null-move search and a full-window child search are in progress and
\* quiescence has been entered below them
C13_Witness ==
    /\ Len(frames) >= 3
    /\ \E k \in DOMAIN frames : frames[k].pc = "null"
    /\ \E k \in DOMAIN frames : frames[k].pc = "full"
    /\ Top.fn = "quiescence"

\* C14 (as claimed): at every call of alphaBeta the height argument
\* satisfies 0 <= height < maxHeight
C14_HeightBelowMax ==
    \A k \in DOMAIN frames :
        frames[k].fn = "alphaBeta" =>
            0 <= frames[k].height /\ frames[k].height < maxHeight

\* C14 (amended): at every call of alphaBeta 0 <= height <= maxHeight, and a
\* call with height = maxHeight gets no further than the test of line 99
C14_HeightWithinMax ==
    \A k \in DOMAIN frames :
        frames[k].fn = "alphaBeta" =>
            /\ 0 <= frames[k].height /\ frames[k].height <= maxHeight
            /\ frames[k].height = maxHeight => frames[k].pc = "entry" /\ k = Len(frames)

\* alphaBeta has been called with height = maxHeight
C14_Witness ==
    /\ frames # <<>>
    /\ Top.fn = "alphaBeta" /\ Top.height = maxHeight
    /\ \A k \in DOMAIN frames : frames[k].fn = "alphaBeta"

\* the entry alphaBeta has just stored for its position
Stored == Read(transTable, RetPosition)

\* C15: every store of alphaBeta into the transposition table carries a
\* bound: LOWER alone exactly when the node failed high (alpha >= beta),
\* UPPER alone exactly when no move improved alpha, both exactly when a move
\* improved alpha and alpha stayed below beta; the stored move is the best
\* move, or the empty move when there is none
C15_StoreBound ==
    (ReturnedAB /\ ret.site = "end") =>
        /\ Stored.ok
        /\ Stored.bound \in {boundLower, boundUpper, boundLower + boundUpper}
        /\ Stored.bound = boundLower <=> ret.val >= ret.beta
        /\ Stored.bound = boundUpper <=> Stored.move = MoveEmpty
        /\ Stored.bound = boundUpper <=> ret.val = ret.alpha
        /\ Stored.bound = boundLower + boundUpper <=>
               (ret.val > ret.alpha /\ ret.val < ret.beta)
        /\ Stored.move # MoveEmpty =>
               /\ \E j \in DOMAIN GenerateMoves(RetPosition) :
                      GenerateMoves(RetPosition)[j] = Stored.move
               /\ MakeMoveOk(RetPosition, Stored.move)
        /\ Stored.score = valueToTT(ret.val, ret.height)

\* an exact score was stored
C15_Witness ==
    /\ ReturnedAB /\ ret.site = "end"
    /\ Stored.bound = boundLower + boundUpper
    /\ Stored.move # MoveEmpty

\* C16: once the search is cancelled the thread unwinds at its next node
\* count that is a multiple of 256; it unwinds nowhere else, and never
\* while the search is not cancelled
C16_UnwindAtNodeCheck ==
    /\ [](abPanic => abDone /\ nodes % 256 = 0)
    /\ [][/\ nodes' \in {nodes, nodes + 1}
          /\ (abDone /\ nodes' # nodes /\ nodes' % 256 = 0) => abPanic'
          /\ (abPanic' /\ ~abPanic) =>
                 abDone /\ nodes' = nodes + 1 /\ nodes' % 256 = 0]_vars

\* a search that was under way has been unwound at node 256
C16_Witness ==
    /\ abPanic /\ abDone
    /\ nodes = 256
    /\ stack[2].position # StartPosition

\* the steps of the goroutine that called Search
MainStep ==
    \/ IterativeDeepeningBegin
    \/ RootFirstMove
    \/ RootFirstMovePanic
    \/ IterativeDeepeningRecover
    \/ RootJoin
    \/ IterationEnd
    \/ SearchReturn

\* the steps of worker t
WorkerStep(t) ==
    \/ WorkerLock(t)
    \/ WorkerLock2(t)
    \/ WorkerTake(t)
    \/ WorkerUnlock(t)
    \/ WorkerScout(t)
    \/ WorkerResearch(t)
    \/ WorkerPanic(t)
    \/ WorkerRecover(t)
    \/ WorkerUpdate(t)
    \/ WorkerUnlock2(t)

MaxFairIterations == 2

MaxFairPv == 0

\* the iterations and the lines of play followed under fairness
FairBounded ==
    /\ depth' <= MaxFairIterations
    /\ Len(mainLine'.moves) <= 1 + MaxFairPv
    /\ \A t \in ThreadIds : Len(pv1'[t]) <= MaxFairPv

\* one Search call on an engine that has not searched before
FairSearch(p, n) == searches = 0 /\ Search(p, n)

FairMainStep == MainStep /\ FairBounded

FairWorkerStep(t) == WorkerStep(t) /\ FairBounded

NextFair ==
    \/ \E p \in RootPositions, n \in ThreadIds : FairSearch(p, n)
    \/ Cancel
    \/ FairMainStep
    \/ \E t \in ThreadIds : FairWorkerStep(t)

\* every goroutine that can go on without end is run in the end
Fairness ==
    /\ WF_vars(FairMainStep)
    /\ \A t \in ThreadIds : WF_vars(FairWorkerStep(t))

SpecFair == Init /\ [][NextFair]_vars /\ Fairness

C20_CancelledSearchReturns ==
    /\ [](\A t \in ThreadIds : wpc[t] = "unwind" => gate # t)
    /\ [][(pc = "iterated" /\ done) => pc' # "searchRoot"]_vars
    /\ (done /\ pc = "wait") ~>
           ((\A t \in WorkerIds : wpc[t] \in {"exit", "none"}) \/ ~Running)
    /\ done ~> (pc = "idle" \/ ~Running)

\* a cancelled search with two workers, both unwound, has returned
C20_Witness ==
    /\ pc = "idle" /\ done /\ Running
    /\ searches >= 1
    /\ Threads = 2
    /\ cut = {1, 2}

====
